---- MODULE Spec2Model ----
(***************************************************************************)
(* demo_power_sense: the batch writers of the three services (api_data,    *)
(* ingest, prefect_worker), the latest-state reconciler of api_data and    *)
(* the record normalizer of the ingest service.                            *)
(*                                                                         *)
(* Spec         the api_data insert_measurements writer (sequential write  *)
(*              mode) under a single caller, with transient store errors.  *)
(* SpecWriters  the retry loops of the five batch writers.                 *)
(* SpecNorm     normalize_record applied to the records of up to MaxFields *)
(*              fields.                                                    *)
(* SpecUkey     _format_ukey of api_data and of ingest on two argument     *)
(*              tuples.                                                    *)
(* SpecAnomaly  one anomaly detection cycle of prefect_worker: baseline,   *)
(*              scoring, writing.                                          *)
(* SpecStore    the writers together with the readers of api_data.         *)
(* SpecRace     two concurrent requests of the ingest endpoint of          *)
(*              api_data.                                                  *)
(* SpecHistory  the detection pass of prefect_worker reading the history   *)
(*              of a store that api_data has written.                      *)
(* SpecTasks    write_rows of the worker's ingestion tasks.                *)
(* SpecFetch    the paginated fetch of the upstream API; SpecFetchLive is  *)
(*              SpecFetch with a fetch that goes on.                       *)
(* SpecPass     the ingestion passes of ingest and of prefect_worker:      *)
(*              bootstrap, fetch, normalization, write.                    *)
(***************************************************************************)
EXTENDS Integers, Sequences, FiniteSets, TLC

VARIABLES
    measurements,        \* ClickHouse table measurements of api_data (append order)
    anomalies,           \* ClickHouse table anomalies of api_data (append order)
    ingest_measurements, \* table measurements of the ingest service deployment
    fn,                  \* the batch writer being called, "none" when no call runs
    pc,                  \* position of the call: idle, attempt, returned, raised
    rows,                \* the call's argument rows
    max_retries,         \* the call's argument max_retries
    retry_seconds,       \* the call's argument retry_seconds
    attempts,            \* the local variable attempts of the retry loop
    tries,               \* passes made through the body of the while loop
    sleeps,              \* arguments of the time.sleep calls of the call, in order
    result,              \* the value returned
    error,               \* the exception that left the call, "none" when there is none
    io,                  \* the kinds of store and HTTP calls the call has made
    appended,            \* rows the call has appended to a table so far
    last,                \* what the call's latest reconciliation pass staged, fetched,
                         \* decided, prepared and wrote
    submitted,           \* per ukey, the values handed in by the calls that returned normally
    nrows,               \* rows handed in over the run
    nlost,               \* attempts that wrote rows and then raised
    rec,                 \* normalize_record: the record, a sequence of <<field, value>>
    out,                 \* normalize_record: what the call produced
    ukey_args,           \* _format_ukey: the arguments of two calls
    ukey_out,            \* _format_ukey: the keys the two calls returned, <<>> before
    cycle,               \* anomaly_detection_cycle: its position, the arguments and the
                         \* results of its tasks
    hist,                \* fetch_anomaly_history: the range, the windows and the chunks of
                         \* the latest run
    fetch,               \* the paginated fetch of the upstream API: position, arguments,
                         \* locals, the requests made and the pages received
    ing,                 \* the ingestion pass of a service: position and locals
    race                 \* per concurrent caller of the ingest endpoint of api_data: the
                         \* position, arguments and locals of its insert_measurements

vars == <<measurements, anomalies, ingest_measurements, fn, pc, rows, max_retries,
          retry_seconds, attempts, tries,
          sleeps, result, error, io, appended, last, submitted, nrows, nlost, rec, out,
          ukey_args, ukey_out, cycle, race, hist, fetch,
          ing>>

writerVars == <<measurements, anomalies, ingest_measurements, fn, pc, rows, max_retries,
                retry_seconds, attempts,
                tries, sleeps, result, error, io, appended, last, submitted, nrows, nlost>>

normVars == <<rec, out>>

ukeyVars == <<ukey_args, ukey_out>>

\* the variables of the ingestion passes
passVars == <<fetch, ing>>

\* the variables of the services' flows
flowVars == <<race, hist, passVars>>

\* the variables the writers' retry loops leave alone
funVars == <<normVars, ukeyVars, cycle, flowVars>>

----------------------------------------------------------------------------
(* Bounds of the model. *)

\* longest batch handed to a writer
MaxBatch == 2

\* rows handed in over one run
MaxRows == 2

\* attempts of one run that write rows and raise afterwards
MaxLost == 1

\* full pages the upstream returns before a short one
MaxPages == 2

\* records of a page of the upstream
MaxPage == 2

\* service starts and cycles of one run
MaxCycles == 3

----------------------------------------------------------------------------
(* Defaults of the writers' parameters. *)

DefaultMaxRetries == 5

DefaultRetrySeconds == 1

chunk_size == 500

\* last_version when latest_state has no entry for the ukey: (None, None)
NoVersion == 0

----------------------------------------------------------------------------
(* Values.  A value is None, a float NaN or a float.                       *)

None == [kind |-> "none", x |-> 0]

NaN == [kind |-> "nan", x |-> 0]

Num(n) == [kind |-> "num", x |-> n]

\* api_data/db.py _is_nullish (pandas NA and NaT are not values of the model)
_is_nullish(value) == value = None \/ value.kind = "nan"

clean(value) == IF _is_nullish(value) THEN None ELSE value

\* _values_equal that finds no two values equal
_values_equalNever(left, right) == FALSE

\* api_data/db.py _values_equal
_values_equal(left, right) ==
    IF left = None /\ right = None THEN TRUE ELSE left = right

----------------------------------------------------------------------------
(* Timestamps: a wall-clock reading in seconds and tz, <<offset>> of its   *)
(* zone in seconds, <<>> when the datetime carries no tzinfo.              *)

Utc(w) == [wall |-> w, tz |-> <<0>>]

Zoned(w, off) == [wall |-> w, tz |-> <<off>>]

\* _ensure_utc that leaves the timestamp in its zone
_ensure_utcAsIs(ts) == ts

\* api_data/db.py _ensure_utc
_ensure_utc(ts) ==
    IF ts.tz = <<>> THEN [wall |-> ts.wall, tz |-> <<0>>]
    ELSE [wall |-> ts.wall - ts.tz[1], tz |-> <<0>>]

\* strftime("%Y%m%d") and strftime("%H:%M:%S"): the day and the second of the day
date_str(ts) == ts.wall \div 86400

time_str(ts) == ts.wall % 86400

\* api_data/db.py _format_ukey: json.dumps(payload, sort_keys=True) of the five fields
_format_ukey(ts, perimetre, nature, metric) ==
    LET u == _ensure_utc(ts)
    IN  [perimetre |-> perimetre, nature |-> nature, metric |-> metric,
         date |-> date_str(u), time |-> time_str(u)]

----------------------------------------------------------------------------
(* The store.  A table is the sequence of its rows in the order they were  *)
(* appended.                                                               *)

Ukeys(table) == {table[i].ukey : i \in DOMAIN table}

RowsOf(table, ukey) == SelectSeq(table, LAMBDA r : r.ukey = ukey)

MaxVersion(table, ukey) ==
    LET vs == {table[i].version : i \in {j \in DOMAIN table : table[j].ukey = ukey}}
    IN  CHOOSE v \in vs : \A w \in vs : w <= v

\* the view int_electricity__measurements_latest: per ukey, the row of the highest version
LatestView(table) ==
    {table[i] : i \in {j \in DOMAIN table :
                         /\ table[j].version = MaxVersion(table, table[j].ukey)
                         /\ \A k \in DOMAIN table :
                              (table[k].ukey = table[j].ukey
                                 /\ table[k].version = table[j].version) => k <= j}}

\* client.query("SELECT ukey, value, version FROM ..._latest WHERE ukey IN batch")
QueryLatest(table, batch) == {r \in LatestView(table) : r.ukey \in batch}

\* the slices ukeys[i : i + chunk_size] of _fetch_latest_state
RECURSIVE Chunks(_, _)
Chunks(ukeys, size) ==
    IF ukeys = {} THEN <<>>
    ELSE LET batch == CHOOSE b \in SUBSET ukeys :
                          /\ Cardinality(b) <= size
                          /\ (Cardinality(b) = size \/ b = ukeys)
         IN  <<batch>> \o Chunks(ukeys \ batch, size)

\* _fetch_latest_state that finds no row
_fetch_nothing(table, ukeys, size) == <<>>

\* api_data/db.py _fetch_latest_state: ukey -> (value, version) of the rows found
_fetch_latest_state(table, ukeys, size) ==
    LET chunks == Chunks(ukeys, size)
        found == UNION {QueryLatest(table, chunks[i]) : i \in DOMAIN chunks}
    IN  [k \in {r.ukey : r \in found} |->
            LET r == CHOOSE q \in found : q.ukey = k
            IN  [value |-> r.value, version |-> r.version]]

\* latest_state.get(ukey_json, (None, None))
StateOf(latest_state, ukey) ==
    IF ukey \in DOMAIN latest_state THEN latest_state[ukey]
    ELSE [value |-> None, version |-> NoVersion]

\* NextVersion without the increment
NextVersionStuck(last_version) ==
    IF last_version = NoVersion THEN 1 ELSE last_version

\* int(last_version) + 1, and 1 when there is no last version
NextVersion(last_version) ==
    IF last_version = NoVersion THEN 1 ELSE last_version + 1

\* the first loop of insert_measurements: clean the value, build the ukey
RECURSIVE Stage(_)
Stage(rs) ==
    IF rs = <<>> THEN <<>>
    ELSE LET r == Head(rs)
         IN  <<[ts |-> r.ts, source |-> r.source, metric |-> r.metric,
                value |-> clean(r.value),
                ukey |-> _format_ukey(r.ts, r.perimetre, r.nature, r.metric)]>>
             \o Stage(Tail(rs))

\* Remember that leaves latest_state as fetched
RememberNothing(latest_state, ukey, value, version) == latest_state

\* latest_state[ukey_json] = (clean_value, next_version)
Remember(latest_state, ukey, value, version) ==
    [k \in DOMAIN latest_state \cup {ukey} |->
        IF k = ukey THEN [value |-> value, version |-> version] ELSE latest_state[k]]

\* the second loop of insert_measurements over staged: the rows prepared, with the
\* decision taken for each staged row
RECURSIVE ReconcileLoop(_, _, _, _)
ReconcileLoop(staged, latest_state, prepared_rows, decisions) ==
    IF staged = <<>> THEN [prepared_rows |-> prepared_rows, decisions |-> decisions]
    ELSE LET s == Head(staged)
             st == StateOf(latest_state, s.ukey)
             next_version == NextVersion(st.version)
         IN  IF _values_equal(s.value, st.value)
             THEN ReconcileLoop(Tail(staged), latest_state, prepared_rows,
                      Append(decisions,
                          [ukey |-> s.ukey, value |-> s.value, last_value |-> st.value,
                           last_version |-> st.version, written |-> FALSE,
                           version |-> NoVersion]))
             ELSE ReconcileLoop(Tail(staged),
                      Remember(latest_state, s.ukey, s.value, next_version),
                      Append(prepared_rows,
                          [ts |-> s.ts, source |-> s.source, metric |-> s.metric,
                           value |-> s.value, ukey |-> s.ukey, version |-> next_version]),
                      Append(decisions,
                          [ukey |-> s.ukey, value |-> s.value, last_value |-> st.value,
                           last_version |-> st.version, written |-> TRUE,
                           version |-> next_version]))

\* one pass of the body of insert_measurements up to the insert
Reconcile(table, rs) ==
    LET staged == Stage(rs)
        ukeys == {staged[i].ukey : i \in DOMAIN staged}
        latest_state == _fetch_latest_state(table, ukeys, chunk_size)
        r == ReconcileLoop(staged, latest_state, <<>>, <<>>)
    IN  [staged |-> staged, fetched |-> latest_state, queries |-> Len(Chunks(ukeys, chunk_size)),
         prepared_rows |-> r.prepared_rows, decisions |-> r.decisions]

----------------------------------------------------------------------------
(* The other writers' row preparation.                                     *)

\* api_data/db.py insert_anomalies: the tuple built for each row
RECURSIVE PrepareAnomalies(_)
PrepareAnomalies(rs) ==
    IF rs = <<>> THEN <<>>
    ELSE LET r == Head(rs)
         IN  <<[ts |-> _ensure_utc(r.ts), source |-> r.source, metric |-> r.metric,
                value |-> clean(r.value), zscore |-> r.zscore, mean |-> r.mean,
                std |-> r.std, threshold |-> r.threshold, dow |-> r.dow,
                hour |-> r.hour, minute |-> r.minute]>>
             \o PrepareAnomalies(Tail(rs))

\* ingest/app/db.py _format_ukey: a naive timestamp is formatted as it stands
ingest_format_ukey(ts, perimetre, nature, metric) ==
    LET u == IF ts.tz = <<>> THEN ts ELSE [wall |-> ts.wall - ts.tz[1], tz |-> <<0>>]
    IN  [perimetre |-> perimetre, nature |-> nature, metric |-> metric,
         date |-> date_str(u), time |-> time_str(u)]

\* _compute_version that numbers the rows of the table
_compute_versionCounting(value, ukey_json) == Len(ingest_measurements) + 1

\* ingest/app/db.py _compute_version: the digest of the canonical JSON of
\* {"value": value, "ukey": ukey}, a fixed function of the two (the 8-byte digest
\* is cut to the integers of the checker)
_compute_version(value, ukey_json) ==
    LET v == IF value = None THEN 7 ELSE 31 * value.x + 11
    IN  (v * 65599 + 8191 * ukey_json.date + ukey_json.time + 1) % 2147483647

\* ingest/app/db.py insert_measurements: prepare(r) for each row
RECURSIVE PrepareHashed(_)
PrepareHashed(rs) ==
    IF rs = <<>> THEN <<>>
    ELSE LET r == Head(rs)
             clean_value == clean(r.value)
             ukey_json == ingest_format_ukey(r.ts, r.perimetre, r.nature, r.metric)
         IN  <<[ts |-> r.ts, source |-> r.source, metric |-> r.metric,
                value |-> clean_value, ukey |-> ukey_json,
                version |-> _compute_version(clean_value, ukey_json)]>>
             \o PrepareHashed(Tail(rs))

\* prefect_worker/db.py insert_measurements: the payload rows; the Data API handler
\* ingest_measurements turns each item back into a tuple
RECURSIVE PayloadRows(_)
PayloadRows(rs) ==
    IF rs = <<>> THEN <<>>
    ELSE LET r == Head(rs)
         IN  <<[r EXCEPT !.value = clean(r.value)]>> \o PayloadRows(Tail(rs))

----------------------------------------------------------------------------
(* The writers.                                                            *)

ApiMeasurements == "api_data.insert_measurements"

ApiAnomalies == "api_data.insert_anomalies"

IngestMeasurements == "ingest.insert_measurements"

WorkerMeasurements == "prefect_worker.insert_measurements"

WorkerAnomalies == "prefect_worker.insert_anomalies"

\* insert_measurements of prefect_worker/ingestion/tasks.py
TaskMeasurements == "prefect_worker.ingestion.insert_measurements"

Writers == {ApiMeasurements, ApiAnomalies, IngestMeasurements, WorkerMeasurements,
            WorkerAnomalies}

MeasurementWriters == {ApiMeasurements, IngestMeasurements, WorkerMeasurements,
                       TaskMeasurements}

\* the writers whose rows pass through the reconciler of api_data
Reconciling == {ApiMeasurements, WorkerMeasurements, TaskMeasurements}

\* the writers that reach the store through the Data API
OverHttp == {WorkerMeasurements, WorkerAnomalies, TaskMeasurements}

\* the table a writer appends to
TableOf(f) ==
    IF f \in Reconciling THEN "measurements"
    ELSE IF f = IngestMeasurements THEN "ingest_measurements"
    ELSE "anomalies"

\* the exception class the writer's except clause catches
TransientOf(f) == IF f \in OverHttp THEN "RequestException" ELSE "ClickHouseError"

NoIo == {}

NoLast == [staged |-> <<>>, fetched |-> <<>>, decisions |-> <<>>, prepared |-> <<>>,
           written |-> <<>>]

\* NotRows of a writer without the guard
NotRowsNever(rs) == FALSE

\* "if not rows: return 0"
NotRows(rs) == rs = <<>>

\* Exhausted with > for >=
ExhaustedLate(n) == n > max_retries

\* "if attempts >= max_retries: raise"
Exhausted(n) == n >= max_retries

\* "time.sleep(retry_seconds * attempts)"
Backoff(n) == retry_seconds * n

\* what one pass through the try block does when nothing raises: the rows it
\* inserts, the value it returns, the store and HTTP calls it makes
Plan(f, rs) ==
    IF f \in Reconciling
    THEN LET r == Reconcile(measurements, IF f \in OverHttp THEN PayloadRows(rs) ELSE rs)
             n == Len(r.prepared_rows)
         IN  [prepared |-> r.prepared_rows, ret |-> n,
              calls |-> IF f \in OverHttp THEN {"post"}
                        ELSE {"client"} \cup (IF r.queries > 0 THEN {"read"} ELSE {})
                                        \cup (IF n > 0 THEN {"write"} ELSE {}),
              last |-> [staged |-> r.staged, fetched |-> r.fetched,
                        decisions |-> r.decisions, prepared |-> r.prepared_rows,
                        written |-> r.prepared_rows]]
    ELSE IF f = IngestMeasurements
    THEN [prepared |-> PrepareHashed(rs), ret |-> Len(rs),
          calls |-> {"client", "write"}, last |-> last]
    ELSE [prepared |-> PrepareAnomalies(IF f \in OverHttp THEN PayloadRows(rs) ELSE rs),
          ret |-> Len(rs),
          calls |-> IF f \in OverHttp THEN {"post"} ELSE {"client", "write"},
          last |-> last]

\* the places of the try block where the store or the Data API can fail
FailStages(f, plan) ==
    IF f \in OverHttp THEN {"post"}
    ELSE {"connect"}
         \cup (IF "read" \in plan.calls THEN {"query"} ELSE {})
         \cup (IF "write" \in plan.calls THEN {"insert"} ELSE {})

\* the subsequence of s at the indices in keep
RECURSIVE Pick(_, _, _)
Pick(s, keep, i) ==
    IF i > Len(s) THEN <<>>
    ELSE (IF i \in keep THEN <<s[i]>> ELSE <<>>) \o Pick(s, keep, i + 1)

\* the rows a failing pass may leave written: any of the rows of a failing insert,
\* all or none of the rows of a request whose response was lost
Leftovers(plan, stage) ==
    IF stage = "insert"
    THEN SUBSET DOMAIN plan.prepared
    ELSE IF stage = "post" THEN {{}, DOMAIN plan.prepared}
    ELSE {{}}

\* Insert that replaces the contents of the table
InsertReplacing(f, written) ==
    /\ measurements' = IF TableOf(f) = "measurements" THEN written ELSE measurements
    /\ anomalies' = IF TableOf(f) = "anomalies" THEN written ELSE anomalies
    /\ ingest_measurements' = IF TableOf(f) = "ingest_measurements"
                              THEN written ELSE ingest_measurements

\* client.insert(table, written)
Insert(f, written) ==
    /\ measurements' = IF TableOf(f) = "measurements"
                       THEN measurements \o written ELSE measurements
    /\ anomalies' = IF TableOf(f) = "anomalies" THEN anomalies \o written ELSE anomalies
    /\ ingest_measurements' = IF TableOf(f) = "ingest_measurements"
                              THEN ingest_measurements \o written
                              ELSE ingest_measurements

\* the values of the staged rows of a pass, appended per ukey
RECURSIVE Submit(_, _)
Submit(sub, staged) ==
    IF staged = <<>> THEN sub
    ELSE LET s == Head(staged)
             old == IF s.ukey \in DOMAIN sub THEN sub[s.ukey] ELSE <<>>
         IN  Submit([k \in DOMAIN sub \cup {s.ukey} |->
                        IF k = s.ukey THEN Append(old, s.value) ELSE sub[k]],
                    Tail(staged))

\* the store and HTTP calls a pass made before it failed at stage
CallsBefore(stage) ==
    IF stage = "connect" THEN {}
    ELSE IF stage = "query" THEN {"client", "read"}
    ELSE IF stage = "insert" THEN {"client", "read", "write"}
    ELSE {"post"}

\* a writer is called with rs, max_retries = mr and retry_seconds = secs
Call(f, rs, mr, secs) ==
    /\ pc = "idle"
    /\ nrows + Len(rs) <= MaxRows
    /\ fn' = f
    /\ rows' = rs
    /\ max_retries' = mr
    /\ retry_seconds' = secs
    /\ nrows' = nrows + Len(rs)
    /\ attempts' = 0
    /\ tries' = 0
    /\ sleeps' = <<>>
    /\ error' = "none"
    /\ io' = NoIo
    /\ appended' = 0
    /\ last' = NoLast
    /\ IF NotRows(rs)
       THEN pc' = "returned" /\ result' = 0
       ELSE pc' = "attempt" /\ result' = -1
    /\ UNCHANGED <<measurements, anomalies, ingest_measurements, submitted, nlost>>
    /\ UNCHANGED funVars

\* one pass through the try block in which nothing raises
AttemptReturns ==
    /\ pc = "attempt"
    /\ LET plan == Plan(fn, rows)
       IN  /\ Insert(fn, plan.prepared)
           /\ io' = io \cup plan.calls
           /\ result' = plan.ret
           /\ appended' = appended + Len(plan.prepared)
           /\ last' = plan.last
           /\ submitted' = IF fn \in Reconciling
                           THEN Submit(submitted, plan.last.staged) ELSE submitted
    /\ tries' = tries + 1
    /\ pc' = "returned"
    /\ UNCHANGED <<fn, rows, max_retries, retry_seconds, attempts, sleeps, error, nrows,
                   nlost>>
    /\ UNCHANGED funVars

\* one pass through the try block in which the store (or the Data API) raises the
\* transient error at stage, leaving the prepared rows at the indices keep written;
\* the except clause counts the attempt and raises or sleeps and loops
AttemptFails(stage, keep) ==
    /\ pc = "attempt"
    /\ LET plan == Plan(fn, rows)
           written == Pick(plan.prepared, keep, 1)
       IN  /\ stage \in FailStages(fn, plan)
           /\ keep \in Leftovers(plan, stage)
           /\ nlost + (IF keep = {} THEN 0 ELSE 1) <= MaxLost
           /\ nlost' = nlost + (IF keep = {} THEN 0 ELSE 1)
           /\ Insert(fn, written)
           /\ io' = io \cup (CallsBefore(stage) \cap plan.calls)
           /\ appended' = appended + Len(written)
           /\ last' = IF fn \in Reconciling /\ stage \in {"insert", "post"}
                      THEN [plan.last EXCEPT !.written = written] ELSE last
    /\ tries' = tries + 1
    /\ attempts' = attempts + 1
    /\ IF Exhausted(attempts')
       THEN pc' = "raised" /\ error' = TransientOf(fn) /\ sleeps' = sleeps
       ELSE pc' = "attempt" /\ error' = "none"
            /\ sleeps' = Append(sleeps, Backoff(attempts'))
    /\ UNCHANGED <<fn, rows, max_retries, retry_seconds, result, submitted, nrows>>
    /\ UNCHANGED funVars

\* AttemptCrashes with the error counted and slept on as a transient one is
AttemptCrashesCounted ==
    /\ pc = "attempt"
    /\ tries' = tries + 1
    /\ attempts' = attempts + 1
    /\ sleeps' = Append(sleeps, Backoff(attempts'))
    /\ pc' = "raised"
    /\ error' = "Exception"
    /\ UNCHANGED <<measurements, anomalies, ingest_measurements, fn, rows, max_retries,
                   retry_seconds, result, io, appended, last, submitted, nrows, nlost>>
    /\ UNCHANGED funVars

\* one pass through the try block in which an exception is raised that the except
\* clause does not catch
AttemptCrashes ==
    /\ pc = "attempt"
    /\ tries' = tries + 1
    /\ pc' = "raised"
    /\ error' = "Exception"
    /\ UNCHANGED <<measurements, anomalies, ingest_measurements, fn, rows, max_retries,
                   retry_seconds, attempts, sleeps, result, io, appended, last,
                   submitted, nrows, nlost>>
    /\ UNCHANGED funVars

\* the caller has the result, or the exception, of the call
Done ==
    /\ pc \in {"returned", "raised"}
    /\ pc' = "idle"
    /\ fn' = "none"
    /\ rows' = <<>>
    /\ max_retries' = DefaultMaxRetries
    /\ retry_seconds' = DefaultRetrySeconds
    /\ attempts' = 0
    /\ tries' = 0
    /\ sleeps' = <<>>
    /\ result' = -1
    /\ error' = "none"
    /\ io' = NoIo
    /\ appended' = 0
    /\ last' = NoLast
    /\ UNCHANGED <<measurements, anomalies, ingest_measurements, submitted, nrows, nlost>>
    /\ UNCHANGED funVars

----------------------------------------------------------------------------
(* Inputs.                                                                 *)

\* midnight UTC read in the zone +01:00, and a quarter of an hour later in UTC
Timestamps == {Zoned(3600, 3600), Utc(900)}

Values == {None, Num(10), Num(12)}

MeasurementRows ==
    [ts : Timestamps, source : {"France"}, metric : {"consommation"}, value : Values,
     perimetre : {"France"}, nature : {"Donnees temps reel"}]

AnomalyRows ==
    [ts : {Utc(900)}, source : {"France"}, metric : {"consommation"},
     value : {NaN, Num(130)}, zscore : {6}, mean : {100}, std : {5}, threshold : {3},
     dow : {2}, hour : {14}, minute : {30}]

\* <<max_retries, retry_seconds>> of the calls of Spec: one attempt may fail and
\* be retried
ShortRetries == {<<2, DefaultRetrySeconds>>}

BatchesOf(S) == UNION {[1..n -> S] : n \in 0..MaxBatch}

WriterInit ==
    /\ measurements = <<>>
    /\ anomalies = <<>>
    /\ ingest_measurements = <<>>
    /\ fn = "none"
    /\ pc = "idle"
    /\ rows = <<>>
    /\ max_retries = DefaultMaxRetries
    /\ retry_seconds = DefaultRetrySeconds
    /\ attempts = 0
    /\ tries = 0
    /\ sleeps = <<>>
    /\ result = -1
    /\ error = "none"
    /\ io = NoIo
    /\ appended = 0
    /\ last = NoLast
    /\ submitted = <<>>
    /\ nrows = 0
    /\ nlost = 0

NormIdle ==
    /\ rec = <<>>
    /\ out = [status |-> "idle", rows |-> <<>>, error |-> "none"]

UkeyIdle ==
    /\ ukey_args = <<>>
    /\ ukey_out = <<>>

\* no anomaly detection cycle runs
CycleIdle ==
    cycle = [pc |-> "idle", rows |-> <<>>, eval_start |-> 0, min_samples |-> 0,
             z_threshold |-> 0, baseline_df |-> <<>>, baseline |-> {}, eval_df |-> <<>>,
             merged |-> <<>>, anomalies |-> <<>>, handed |-> <<>>, written |-> 0]

\* the two request threads of the ingest endpoint
Callers == {1, 2}

NoCall == [pc |-> "idle", rows |-> <<>>, attempts |-> 0, prepared |-> <<>>,
           seen |-> 0, raced |-> FALSE, result |-> -1]

\* no request is being served
RaceIdle == race = [p \in Callers |-> NoCall]

\* fetch_anomaly_history has not run
HistoryIdle ==
    hist = [pc |-> "idle", start_ts |-> 0, end_ts |-> 0, metric |-> "", windows |-> <<>>,
            chunks |-> <<>>, store |-> <<>>]

NoFetch == [pc |-> "idle", svc |-> "none", api_url |-> "", page_limit |-> 0, runs |-> 0,
            offset |-> 0, all_results |-> <<>>, requests |-> <<>>, pages |-> <<>>,
            full |-> 0, http |-> 0, error |-> "none"]

\* no fetch runs
FetchIdle == fetch = NoFetch

\* a pass of a service: its position, API_URL, what the check of the table returned
\* (<<>> before it), the state of the bootstrap, the rows in hand, what
\* fetch_and_store_once or the flow returned (<<rows, errors>>, <<>> before), and
\* counts of what the pass has done
NoPass == [pc |-> "idle", svc |-> "none", api_url |-> "", empty |-> <<>>, boot |-> "none",
           all_rows |-> <<>>, result |-> <<>>, error |-> "none", downloads |-> 0,
           boot_rows |-> 0, api_rows |-> 0, fetches |-> 0, http |-> 0, runs |-> 0,
           stores |-> 0, cycles |-> 0, passes |-> 0]

\* no service has started
PassIdle == ing = NoPass

FlowIdle == RaceIdle /\ HistoryIdle /\ FetchIdle /\ PassIdle

Init == WriterInit /\ NormIdle /\ UkeyIdle /\ CycleIdle /\ FlowIdle

Next ==
    \/ \E rs \in BatchesOf(MeasurementRows) : \E rt \in ShortRetries :
         Call(ApiMeasurements, rs, rt[1], rt[2])
    \/ AttemptReturns
    \/ \E stage \in {"connect", "query", "insert"} :
         \E keep \in SUBSET (1..Len(rows)) : AttemptFails(stage, keep)
    \/ AttemptCrashes
    \/ Done

Spec == Init /\ [][Next]_vars

----------------------------------------------------------------------------
(* SpecWriters: the five batch writers, called with the default and with   *)
(* other retry settings, on short batches.                                 *)

WriterRows(f) ==
    IF f \in MeasurementWriters
    THEN [ts : {Zoned(3600, 3600)}, source : {"France"}, metric : {"consommation"},
          value : {None, Num(10)}, perimetre : {"France"},
          nature : {"Donnees temps reel"}]
    ELSE AnomalyRows

\* <<max_retries, retry_seconds>>: the defaults, a single attempt, a slower backoff
RetrySettings == {<<DefaultMaxRetries, DefaultRetrySeconds>>, <<1, DefaultRetrySeconds>>,
                  <<3, 2>>}

NextWriters ==
    \/ \E f \in Writers : \E rs \in BatchesOf(WriterRows(f)) :
         \E rt \in RetrySettings : Call(f, rs, rt[1], rt[2])
    \/ AttemptReturns
    \/ \E stage \in {"connect", "query", "insert", "post"} :
         \E keep \in SUBSET (1..Len(rows)) : AttemptFails(stage, keep)
    \/ AttemptCrashes
    \/ Done

SpecWriters == Init /\ [][NextWriters]_vars

----------------------------------------------------------------------------
(* SpecStore: the writers together with the operations of api_data that    *)
(* read the store.                                                         *)

\* limit of the fetch operations when the caller gives none
DefaultLimit == 100

FetchMeasurements == "api_data.fetch_measurements"

FetchLatestMeasurements == "api_data.fetch_latest_measurements"

FetchAnomalies == "api_data.fetch_anomalies"

CountMeasurements == "api_data.count_measurements"

Ping == "api_data.ping"

Readers == {FetchMeasurements, FetchLatestMeasurements, FetchAnomalies, CountMeasurements,
            Ping}

AtMost(n, limit) == IF n < limit THEN n ELSE limit

\* the SELECT of a reader called without filters, recorded as the number of rows it
\* returns: the count for count_measurements, 1 for the row of "SELECT 1"
Selected(op) ==
    CASE op = FetchMeasurements -> AtMost(Len(measurements), DefaultLimit)
      [] op = FetchLatestMeasurements ->
             AtMost(Cardinality(LatestView(measurements)), DefaultLimit)
      [] op = FetchAnomalies -> AtMost(Len(anomalies), DefaultLimit)
      [] op = CountMeasurements -> Len(measurements)
      [] op = Ping -> 1

\* a reader is called: get_client, one client.query, the rows turned into the value
\* returned; when the store fails the error leaves the call, and ping returns False
Read(op, ok) ==
    /\ pc = "idle"
    /\ fn' = op
    /\ rows' = <<>>
    /\ attempts' = 0
    /\ tries' = 0
    /\ sleeps' = <<>>
    /\ appended' = 0
    /\ last' = NoLast
    /\ io' = IF ok THEN {"client", "read"} ELSE {"client"}
    /\ IF ok THEN pc' = "returned" /\ result' = Selected(op) /\ error' = "none"
       ELSE IF op = Ping THEN pc' = "returned" /\ result' = 0 /\ error' = "none"
       ELSE pc' = "raised" /\ result' = -1 /\ error' = "ClickHouseError"
    /\ UNCHANGED <<measurements, anomalies, ingest_measurements, max_retries,
                   retry_seconds, submitted, nrows, nlost>>
    /\ UNCHANGED funVars

NextStore ==
    \/ NextWriters
    \/ \E op \in Readers : \E ok \in BOOLEAN : Read(op, ok)

SpecStore == Init /\ [][NextStore]_vars

----------------------------------------------------------------------------
(* normalize_record (ingest/app/transform.py).  A record is the sequence   *)
(* of its <<field, value>> items in insertion order; a value is None, a    *)
(* number or a string, and a string is the sequence of its characters.     *)

\* fields of one record
MaxFields == 3

PyNone == [kind |-> "none", x |-> 0, s |-> <<>>]

PyNum(n) == [kind |-> "num", x |-> n, s |-> <<>>]

PyStr(chars) == [kind |-> "str", x |-> 0, s |-> chars]

Digit == {"0", "1", "2", "3", "4", "5", "6", "7", "8", "9"}

DigitValue(c) ==
    CASE c = "0" -> 0 [] c = "1" -> 1 [] c = "2" -> 2 [] c = "3" -> 3 [] c = "4" -> 4
      [] c = "5" -> 5 [] c = "6" -> 6 [] c = "7" -> 7 [] c = "8" -> 8 [] c = "9" -> 9

DigitChar(d) == CHOOSE c \in Digit : DigitValue(c) = d

\* the slice s[a:b] of Python, a and b counted from 0
Slice(s, a, b) ==
    LET hi == IF b < Len(s) THEN b ELSE Len(s)
    IN  IF a >= hi THEN <<>> ELSE SubSeq(s, a + 1, hi)

\* str.isdigit(): not empty and digits only
isdigit(s) == s /= <<>> /\ \A i \in DOMAIN s : s[i] \in Digit

\* str.strip()
RECURSIVE strip(_)
strip(s) ==
    IF s = <<>> THEN s
    ELSE IF Head(s) = " " THEN strip(Tail(s))
    ELSE IF s[Len(s)] = " " THEN strip(SubSeq(s, 1, Len(s) - 1))
    ELSE s

\* the decimal digits of a natural number
RECURSIVE Decimal(_)
Decimal(n) ==
    IF n < 10 THEN <<DigitChar(n)>> ELSE Append(Decimal(n \div 10), DigitChar(n % 10))

\* the number a string of digits stands for
RECURSIVE NumberOf(_)
NumberOf(s) ==
    IF s = <<>> THEN 0 ELSE 10 * NumberOf(SubSeq(s, 1, Len(s) - 1)) + DigitValue(s[Len(s)])

\* str(v) for a value that is not None
str(v) == IF v.kind = "str" THEN v.s ELSE Decimal(v.x)

\* float(v): <<x>> when v is a number or a string of digits, <<>> when float raises
float(v) ==
    IF v.kind = "num" THEN <<v.x>>
    ELSE IF v.kind = "str" /\ isdigit(strip(v.s)) THEN <<NumberOf(strip(v.s))>>
    ELSE <<>>

\* "not ts": None, the empty string and zero are false
Falsy(v) == v.kind = "none" \/ (v.kind = "str" /\ v.s = <<>>) \/ (v.kind = "num" /\ v.x = 0)

\* rec.get(key, default)
RECURSIVE Get(_, _, _)
Get(r, key, default) ==
    IF r = <<>> THEN default
    ELSE IF Head(r)[1] = key THEN Head(r)[2]
    ELSE Get(Tail(r), key, default)

\* "len(s) >= 8 and s[0:4].isdigit() and s[4] == '-'"
LooksLikeDate(s) == Len(s) >= 8 /\ isdigit(Slice(s, 0, 4)) /\ s[5] = "-"

\* "len(s) >= 4 and s[0:2].isdigit() and s[2] == ':' and s[3:5].isdigit()"
LooksLikeTime(s) ==
    Len(s) >= 4 /\ isdigit(Slice(s, 0, 2)) /\ s[3] = ":" /\ isdigit(Slice(s, 3, 5))

\* the loop over rec.items() that looks for a date and a time among the values
RECURSIVE ScanDateTime(_, _, _)
ScanDateTime(items, date_val, heure_val) ==
    IF items = <<>> THEN [date_val |-> date_val, heure_val |-> heure_val]
    ELSE LET v == Head(items)[2]
         IN  IF v.kind = "none" THEN ScanDateTime(Tail(items), date_val, heure_val)
             ELSE LET t == strip(str(v))
                      d == IF date_val = <<>> /\ LooksLikeDate(t) THEN <<t>> ELSE date_val
                      h == IF heure_val = <<>> /\ LooksLikeTime(t) THEN <<t>> ELSE heure_val
                  IN  IF d /= <<>> /\ h /= <<>>
                      THEN [date_val |-> d, heure_val |-> h]
                      ELSE ScanDateTime(Tail(items), d, h)

Chars00 == <<":", "0", "0", "+", "0", "0", ":", "0", "0">>

\* the timestamp normalize_record hands to the parser: <<value>>, or <<>> when it
\* returns [] before parsing
TimestampOf(r) ==
    LET ts == Get(r, "date_heure", PyNone)
    IN  IF ~Falsy(ts) THEN <<ts>>
        ELSE LET f == ScanDateTime(r, <<>>, <<>>)
             IN  IF f.date_val /= <<>> /\ f.heure_val /= <<>>
                 THEN <<PyStr(f.date_val[1] \o <<"T">> \o f.heure_val[1] \o Chars00)>>
                 ELSE <<>>

\* YYYY-MM-DD
IsoDate(s) ==
    /\ Len(s) = 10
    /\ isdigit(Slice(s, 0, 4)) /\ s[5] = "-" /\ isdigit(Slice(s, 5, 7)) /\ s[8] = "-"
    /\ isdigit(Slice(s, 8, 10))

\* HH:MM:SS+HH:MM
IsoTime(s) ==
    /\ Len(s) = 14
    /\ isdigit(Slice(s, 0, 2)) /\ s[3] = ":" /\ isdigit(Slice(s, 3, 5)) /\ s[6] = ":"
    /\ isdigit(Slice(s, 6, 8)) /\ s[9] \in {"+", "-"}
    /\ isdigit(Slice(s, 9, 11)) /\ s[12] = ":" /\ isdigit(Slice(s, 12, 14))

\* parse that reads every value as a date
parseAnything(ts) == <<[ymd |-> <<1970, 1, 1>>, hms |-> <<0, 0, 0>>, tz |-> <<>>]>>

\* dateutil's parser.parse on the timestamps of the model: <<datetime>> for
\* YYYY-MM-DD and for YYYY-MM-DDTHH:MM:SS+HH:MM, <<>> when it raises (a value that
\* is no string, a string it cannot read)
parse(ts) ==
    IF ts.kind /= "str" THEN <<>>
    ELSE IF IsoDate(ts.s)
    THEN <<[ymd |-> <<NumberOf(Slice(ts.s, 0, 4)), NumberOf(Slice(ts.s, 5, 7)),
                     NumberOf(Slice(ts.s, 8, 10))>>,
            hms |-> <<0, 0, 0>>, tz |-> <<>>]>>
    ELSE IF Len(ts.s) = 25 /\ IsoDate(Slice(ts.s, 0, 10)) /\ ts.s[11] = "T"
            /\ IsoTime(Slice(ts.s, 11, 25))
    THEN <<[ymd |-> <<NumberOf(Slice(ts.s, 0, 4)), NumberOf(Slice(ts.s, 5, 7)),
                     NumberOf(Slice(ts.s, 8, 10))>>,
            hms |-> <<NumberOf(Slice(ts.s, 11, 13)), NumberOf(Slice(ts.s, 14, 16)),
                     NumberOf(Slice(ts.s, 17, 19))>>,
            tz |-> <<(IF ts.s[20] = "-" THEN -1 ELSE 1)
                       * (3600 * NumberOf(Slice(ts.s, 20, 22))
                          + 60 * NumberOf(Slice(ts.s, 23, 25)))>>]>>
    ELSE <<>>

skip_keys == {"perimetre", "nature", "date", "heure", "date_heure", "total_count", "results"}

DEFAULT_SOURCE == PyStr(<<"F", "r", "a", "n", "c", "e">>)

\* the loop over rec.items() that coerces the fields: the locals metric and val after
\* it, each <<>> while it is unbound
RECURSIVE FieldLoop(_, _, _)
FieldLoop(items, metric, val) ==
    IF items = <<>> THEN [metric |-> metric, val |-> val]
    ELSE LET k == Head(items)[1]
             v == Head(items)[2]
         IN  IF k \in skip_keys \/ v.kind = "none" \/ float(v) = <<>>
             THEN FieldLoop(Tail(items), metric, val)
             ELSE FieldLoop(Tail(items), <<k>>, float(v))

\* normalize_record(rec): the list returned, or the exception raised.  The call
\* rows.append(...) stands after the loop over the fields, not in it.
normalize_record(r) ==
    LET ts == TimestampOf(r)
    IN  IF ts = <<>> THEN [status |-> "returned", rows |-> <<>>, error |-> "none"]
        ELSE IF parse(ts[1]) = <<>>
        THEN [status |-> "returned", rows |-> <<>>, error |-> "none"]
        ELSE LET ts_dt == parse(ts[1])[1]
                 source == Get(r, "perimetre", DEFAULT_SOURCE)
                 nature == Get(r, "nature", PyNone)
                 after == FieldLoop(r, <<>>, <<>>)
             IN  IF after.metric = <<>> \/ after.val = <<>>
                 THEN [status |-> "raised", rows |-> <<>>, error |-> "UnboundLocalError"]
                 ELSE [status |-> "returned",
                       rows |-> <<[ts |-> ts_dt, source |-> source,
                                   metric |-> after.metric[1], value |-> after.val[1],
                                   perimetre |-> source, nature |-> nature]>>,
                       error |-> "none"]

\* normalize_record is applied to rec
Normalize ==
    /\ out.status = "idle"
    /\ out' = normalize_record(rec)
    /\ UNCHANGED rec
    /\ UNCHANGED writerVars
    /\ UNCHANGED ukeyVars
    /\ UNCHANGED cycle
    /\ UNCHANGED flowVars

IsoStamp ==
    <<"2", "0", "2", "5", "-", "0", "1", "-", "0", "1", "T", "1", "2", ":", "3", "0",
      ":", "0", "0", "+", "0", "0", ":", "0", "0">>

\* the items a record of the model is made of
Fields ==
    ({"date_heure"} \X {PyNone, PyStr(IsoStamp), PyStr(<<"n", "/", "a">>)})
    \cup ({"date"} \X {PyStr(Slice(IsoStamp, 0, 10))})
    \cup ({"heure"} \X {PyStr(Slice(IsoStamp, 11, 16))})
    \cup ({"perimetre"} \X {PyStr(<<"F", "r", "a", "n", "c", "e">>)})
    \cup ({"total_count"} \X {PyNum(3)})
    \cup ({"consommation"} \X {PyNum(10), PyNone, PyStr(<<"N", "D">>), PyStr(<<"4", "2">>)})
    \cup ({"gaz"} \X {PyNum(7), PyNone})

\* the records: up to MaxFields items, no field twice
Records ==
    {r \in UNION {[1..n -> Fields] : n \in 0..MaxFields} :
        \A i, j \in DOMAIN r : i /= j => r[i][1] /= r[j][1]}

NormInit ==
    /\ WriterInit
    /\ FlowIdle
    /\ UkeyIdle
    /\ CycleIdle
    /\ rec \in Records
    /\ out = [status |-> "idle", rows |-> <<>>, error |-> "none"]

NextNorm == Normalize

SpecNorm == NormInit /\ [][NextNorm]_vars

----------------------------------------------------------------------------
(* SpecUkey: _format_ukey of api_data and of ingest, applied to the         *)
(* arguments of two calls.                                                 *)

\* a datetime without tzinfo
Naive(w) == [wall |-> w, tz |-> <<>>]

\* 00:15:00 UTC, the same instant read at +01:00, a second and a day later, and
\* the reading 00:15:00 without a zone
UkeyTimestamps ==
    {Utc(900), Zoned(4500, 3600), Utc(901), Utc(87300), Zoned(900, 3600), Naive(900)}

UkeyArgs ==
    [ts : UkeyTimestamps, perimetre : {"France", "Bretagne"},
     nature : {"Donnees temps reel", "Donnees consolidees"},
     metric : {"consommation", "gaz"}]

\* the two modules that define _format_ukey
UkeyModules == {"api_data", "ingest"}

FormatWith(module, a) ==
    IF module = "api_data" THEN _format_ukey(a.ts, a.perimetre, a.nature, a.metric)
    ELSE ingest_format_ukey(a.ts, a.perimetre, a.nature, a.metric)

UkeyInit ==
    /\ WriterInit
    /\ FlowIdle
    /\ NormIdle
    /\ CycleIdle
    /\ ukey_args \in UkeyArgs \X UkeyArgs
    /\ ukey_out = <<>>

\* _format_ukey is called on the first and on the second arguments
FormatUkeys(m1, m2) ==
    /\ ukey_out = <<>>
    /\ ukey_out' = <<[module |-> m1, key |-> FormatWith(m1, ukey_args[1])],
                     [module |-> m2, key |-> FormatWith(m2, ukey_args[2])]>>
    /\ UNCHANGED ukey_args
    /\ UNCHANGED writerVars
    /\ UNCHANGED normVars
    /\ UNCHANGED cycle
    /\ UNCHANGED flowVars

NextUkey == \E m1, m2 \in UkeyModules : FormatUkeys(m1, m2)

SpecUkey == UkeyInit /\ [][NextUkey]_vars

\* the instant of a timestamp in seconds UTC; a reading without a zone counts as UTC
Instant(ts) == IF ts.tz = <<>> THEN ts.wall ELSE ts.wall - ts.tz[1]

\* the two calls agree on perimetre, nature, metric, UTC date and UTC time
SameLogicalInputs(a, b) ==
    /\ a.perimetre = b.perimetre
    /\ a.nature = b.nature
    /\ a.metric = b.metric
    /\ Instant(a.ts) \div 86400 = Instant(b.ts) \div 86400
    /\ Instant(a.ts) % 86400 = Instant(b.ts) % 86400

\* C12: two calls of _format_ukey return the same key when they agree on perimetre,
\* nature, metric, UTC date and UTC time, whatever the zones of the timestamps, and
\* different keys when they differ in one of the five.
C12_UkeyIdentifies ==
    ukey_out /= <<>> =>
        (ukey_out[1].key = ukey_out[2].key
            <=> SameLogicalInputs(ukey_args[1], ukey_args[2]))

\* one instant read in two zones gave one key
C12_Witness ==
    /\ ukey_out /= <<>>
    /\ ukey_args[1].ts = Utc(900)
    /\ ukey_args[2].ts = Zoned(4500, 3600)
    /\ ukey_out[1].key = ukey_out[2].key

\* one wall-clock reading in two zones gave two keys
C12_WitnessDiffer ==
    /\ ukey_out /= <<>>
    /\ ukey_args[1].ts = Utc(900)
    /\ ukey_args[2].ts = Zoned(900, 3600)
    /\ [ukey_args[1] EXCEPT !.ts = 0] = [ukey_args[2] EXCEPT !.ts = 0]
    /\ ukey_out[1].key /= ukey_out[2].key

----------------------------------------------------------------------------
(* The anomaly detection cycle of prefect_worker (anomaly_detection/       *)
(* tasks.py, flow.py).  A row of the history is [ts, source, metric,       *)
(* value]: ts is <<t>>, t in seconds UTC, or <<>> when to_datetime coerces *)
(* it to NaT; value is None or a number.  Means, variances and squared     *)
(* z-scores are exact fractions.                                           *)

\* rows of one history
MaxHistory == 4

RECURSIVE GCD(_, _)
GCD(a, b) == IF b = 0 THEN a ELSE GCD(b, a % b)

Abs(n) == IF n < 0 THEN -n ELSE n

Sign(n) == IF n < 0 THEN -1 ELSE IF n = 0 THEN 0 ELSE 1

\* the fraction n / d, d > 0, in lowest terms
Frac(n, d) ==
    LET g == GCD(Abs(n), d)
    IN  [num |-> n \div g, den |-> d \div g]

\* a float that is NaN, and the float whose square is the fraction sq
NaNStd == [kind |-> "nan", sq |-> Frac(0, 1)]

StdOfVariance(sq) == [kind |-> "num", sq |-> sq]

\* Series.dt.dayofweek (Monday is 0; second 0 is a Thursday), dt.hour, dt.minute
dayofweek(t) == ((t \div 86400) + 3) % 7

hour(t) == (t % 86400) \div 3600

minute(t) == (t % 3600) \div 60

BucketOf(r) == <<dayofweek(r.ts[1]), hour(r.ts[1]), minute(r.ts[1])>>

\* df.dropna(subset=["ts", "value"])
dropna(df) == SelectSeq(df, LAMBDA r : r.ts /= <<>> /\ r.value /= None)

\* Before with <= for <
BeforeOrAt(ts, eval_ts) == ts <= eval_ts

\* df["ts"] < eval_ts
Before(ts, eval_ts) == ts < eval_ts

\* df["ts"] >= eval_ts
AtOrAfter(ts, eval_ts) == ts >= eval_ts

RECURSIVE SumOf(_)
SumOf(df) == IF df = <<>> THEN 0 ELSE Head(df).value.x + SumOf(Tail(df))

RECURSIVE SumOfSquares(_)
SumOfSquares(df) ==
    IF df = <<>> THEN 0 ELSE Head(df).value.x * Head(df).value.x + SumOfSquares(Tail(df))

\* groupby(["dow", "hour", "minute"]).agg(mean, std, count) for one group: the
\* sample standard deviation (ddof = 1) is NaN for a single sample
Agg(df, k) ==
    LET g == SelectSeq(df, LAMBDA r : BucketOf(r) = k)
        n == Len(g)
        S == SumOf(g)
        Q == SumOfSquares(g)
    IN  [dow |-> k[1], hour |-> k[2], minute |-> k[3],
         mean |-> Frac(S, n),
         std |-> IF n < 2 THEN NaNStd ELSE StdOfVariance(Frac(n * Q - S * S, n * (n - 1))),
         samples |-> n]

\* EnoughSamples with > for >=
MoreThanEnough(samples, min_samples) == samples > min_samples

\* baseline["samples"] >= min_samples
EnoughSamples(samples, min_samples) == samples >= min_samples

\* MaskZeroStd that leaves the bucket as it is
MaskNothing(b) == b

\* baseline.loc[baseline["std"] == 0, "std"] = pd.NA
MaskZeroStd(b) ==
    IF b.std.kind = "num" /\ b.std.sq.num = 0 THEN [b EXCEPT !.std = NaNStd] ELSE b

\* build_anomaly_baseline: df after the filter on eval_start, and the baseline
\* returned (the set of its rows, the empty set for an empty DataFrame)
build_anomaly_baseline(rs, eval_start, min_samples) ==
    IF rs = <<>> THEN [df |-> <<>>, baseline |-> {}]
    ELSE LET df == SelectSeq(dropna(rs), LAMBDA r : Before(r.ts[1], eval_start))
             groups == {Agg(df, k) : k \in {BucketOf(df[i]) : i \in DOMAIN df}}
         IN  [df |-> df,
              baseline |-> {MaskZeroStd(b) :
                              b \in {c \in groups : EnoughSamples(c.samples, min_samples)}}]

\* (value - mean) / std in floats: NaN when std is NaN, and for std = 0 (a division
\* by zero does not raise) NaN for 0 / 0 and an infinity otherwise
Zscore(value, mean, std) ==
    LET diff == Frac(value * mean.den - mean.num, mean.den)
    IN  IF std.kind = "nan" THEN [kind |-> "nan", sign |-> 0, sq |-> Frac(0, 1)]
        ELSE IF std.sq.num = 0
        THEN [kind |-> IF diff.num = 0 THEN "nan" ELSE "inf", sign |-> Sign(diff.num),
              sq |-> Frac(0, 1)]
        ELSE [kind |-> "num", sign |-> Sign(diff.num),
              sq |-> Frac(diff.num * diff.num * std.sq.den,
                          diff.den * diff.den * std.sq.num)]

\* Flagged with > for >=
FlaggedStrictly(z, z_threshold) ==
    /\ z.kind /= "nan"
    /\ z.kind = "inf" \/ z_threshold < 0
         \/ z.sq.num > z_threshold * z_threshold * z.sq.den

\* merged["zscore"].abs() >= z_threshold: false for NaN
Flagged(z, z_threshold) ==
    /\ z.kind /= "nan"
    /\ z.kind = "inf" \/ z_threshold <= 0
         \/ z.sq.num >= z_threshold * z_threshold * z.sq.den

\* df.merge(baseline, on=["dow", "hour", "minute"], how="inner") with the columns
\* zscore and threshold added: the rows of df that have a bucket, in the order of df
RECURSIVE Merge(_, _, _)
Merge(df, baseline, z_threshold) ==
    IF df = <<>> THEN <<>>
    ELSE LET r == Head(df)
             k == BucketOf(r)
             bs == {b \in baseline : <<b.dow, b.hour, b.minute>> = k}
         IN  (IF bs = {} THEN <<>>
              ELSE LET b == CHOOSE c \in bs : TRUE
                   IN  <<[ts |-> r.ts, source |-> r.source, metric |-> r.metric,
                          value |-> r.value, dow |-> b.dow, hour |-> b.hour,
                          minute |-> b.minute, mean |-> b.mean, std |-> b.std,
                          samples |-> b.samples,
                          zscore |-> Zscore(r.value.x, b.mean, b.std),
                          threshold |-> z_threshold]>>)
             \o Merge(Tail(df), baseline, z_threshold)

\* score_anomalies: df after the filter on eval_start, the merged frame and the
\* anomalies returned; nothing is read when there are no rows or no baseline
score_anomalies(rs, eval_start, baseline, z_threshold) ==
    IF rs = <<>> \/ baseline = {}
    THEN [df |-> <<>>, merged |-> <<>>, anomalies |-> <<>>]
    ELSE LET df == SelectSeq(dropna(rs), LAMBDA r : AtOrAfter(r.ts[1], eval_start))
             merged == Merge(df, baseline, z_threshold)
         IN  [df |-> df, merged |-> merged,
              anomalies |-> SelectSeq(merged, LAMBDA m : Flagged(m.zscore, z_threshold))]

\* write_anomalies: the tuples handed to db.insert_anomalies
RECURSIVE AnomalyTuples(_)
AnomalyTuples(df) ==
    IF df = <<>> THEN <<>>
    ELSE LET a == Head(df)
         IN  <<[ts |-> Utc(a.ts[1]), source |-> a.source, metric |-> a.metric,
                value |-> a.value, zscore |-> a.zscore, mean |-> a.mean, std |-> a.std,
                threshold |-> a.threshold, dow |-> a.dow, hour |-> a.hour,
                minute |-> a.minute]>>
             \o AnomalyTuples(Tail(df))

\* build_anomaly_baseline(rows, eval_start) in anomaly_detection_cycle
BuildBaseline ==
    /\ cycle.pc = "fetched"
    /\ LET b == build_anomaly_baseline(cycle.rows, cycle.eval_start, cycle.min_samples)
       IN  cycle' = [cycle EXCEPT !.pc = "built", !.baseline_df = b.df,
                                  !.baseline = b.baseline]
    /\ UNCHANGED <<writerVars, normVars, ukeyVars, flowVars>>

\* score_anomalies(rows, eval_start, baseline) in anomaly_detection_cycle
ScoreAnomalies ==
    /\ cycle.pc = "built"
    /\ LET s == score_anomalies(cycle.rows, cycle.eval_start, cycle.baseline,
                                cycle.z_threshold)
       IN  cycle' = [cycle EXCEPT !.pc = "scored", !.eval_df = s.df,
                                  !.merged = s.merged, !.anomalies = s.anomalies]
    /\ UNCHANGED <<writerVars, normVars, ukeyVars, flowVars>>

\* write_anomalies(anomalies): nothing is called for an empty frame; otherwise
\* db.insert_anomalies posts the rows and the Data API appends them to anomalies
WriteAnomalies ==
    /\ cycle.pc = "scored"
    /\ LET handed == AnomalyTuples(cycle.anomalies)
       IN  /\ cycle' = [cycle EXCEPT !.pc = "written", !.handed = handed,
                                     !.written = Len(handed)]
           /\ anomalies' = anomalies \o PrepareAnomalies(PayloadRows(handed))
    /\ UNCHANGED <<measurements, ingest_measurements, fn, pc, rows, max_retries,
                   retry_seconds, attempts, tries, sleeps, result, error, io, appended,
                   last, submitted, nrows, nlost>>
    /\ UNCHANGED <<normVars, ukeyVars, flowVars>>

\* write_anomalies(anomalies) when db.insert_anomalies raises: the exception leaves
\* the flow; the rows are stored when it was the response that was lost
WriteAnomaliesFails(stored) ==
    /\ cycle.pc = "scored"
    /\ cycle.anomalies /= <<>>
    /\ LET handed == AnomalyTuples(cycle.anomalies)
       IN  /\ cycle' = [cycle EXCEPT !.pc = "raised", !.handed = handed]
           /\ anomalies' = IF stored THEN anomalies \o PrepareAnomalies(PayloadRows(handed))
                           ELSE anomalies
    /\ UNCHANGED <<measurements, ingest_measurements, fn, pc, rows, max_retries,
                   retry_seconds, attempts, tries, sleeps, result, error, io, appended,
                   last, submitted, nrows, nlost>>
    /\ UNCHANGED <<normVars, ukeyVars, flowVars>>

\* Thursday 00:00 of four consecutive weeks, and 00:15 of the fourth
AnomalyTimestamps == <<0, 604800, 1209600, 1814400, 1815300>>

\* what the history holds at a timestamp: no row, a row without value, a row whose
\* ts does not parse, or a row with a value
HistoryCells == {"absent", "null", "nat", "95", "100", "105"}

RecentCells == {"absent", "null", "100", "110", "130"}

CellsAt(i) == IF i <= 3 THEN HistoryCells ELSE RecentCells

CellValue(c) ==
    CASE c = "null" -> None
      [] c = "nat" -> Num(100)
      [] c = "95" -> Num(95)
      [] c = "100" -> Num(100)
      [] c = "105" -> Num(105)
      [] c = "110" -> Num(110)
      [] c = "130" -> Num(130)

\* the rows of a choice of cells, in ascending order of ts (order="asc")
RECURSIVE RowsOfCells(_, _)
RowsOfCells(cells, i) ==
    IF i > Len(cells) THEN <<>>
    ELSE (IF cells[i] = "absent" THEN <<>>
          ELSE <<[ts |-> IF cells[i] = "nat" THEN <<>> ELSE <<AnomalyTimestamps[i]>>,
                  source |-> "France", metric |-> "consommation",
                  value |-> CellValue(cells[i])]>>)
         \o RowsOfCells(cells, i + 1)

Histories ==
    {rs \in {RowsOfCells(cells, 1) :
                cells \in {f \in [DOMAIN AnomalyTimestamps -> HistoryCells \cup RecentCells] :
                             \A i \in DOMAIN f : f[i] \in CellsAt(i)}} :
        Len(rs) <= MaxHistory}

\* <<eval_start, min_samples, z_threshold>> of the cycles
CycleSettings == {<<1814400, 3, 3>>, <<1814400, 2, 2>>, <<1209600, 2, 3>>, <<1814400, 1, 3>>}

\* the cycle has fetched its rows and fixed eval_start
AnomalyInit ==
    /\ WriterInit
    /\ FlowIdle
    /\ NormIdle
    /\ UkeyIdle
    /\ \E rs \in Histories : \E c \in CycleSettings :
         cycle = [pc |-> "fetched", rows |-> rs, eval_start |-> c[1], min_samples |-> c[2],
                  z_threshold |-> c[3], baseline_df |-> <<>>, baseline |-> {},
                  eval_df |-> <<>>, merged |-> <<>>, anomalies |-> <<>>, handed |-> <<>>,
                  written |-> 0]

NextAnomaly ==
    \/ BuildBaseline
    \/ ScoreAnomalies
    \/ WriteAnomalies
    \/ \E stored \in BOOLEAN : WriteAnomaliesFails(stored)

SpecAnomaly == AnomalyInit /\ [][NextAnomaly]_vars

\* the fields of the record that are no metadata, are not None and coerce to a float
NumericFields(r) ==
    SelectSeq(r, LAMBDA it : it[1] \notin skip_keys /\ it[2].kind /= "none"
                              /\ float(it[2]) /= <<>>)

\* the record has a timestamp that resolves and parses
Resolvable(r) == TimestampOf(r) /= <<>> /\ parse(TimestampOf(r)[1]) /= <<>>

\* C9: for a record with a resolvable timestamp, the list normalize_record returns
\* holds one tuple per numeric field that is no metadata: (timestamp, source, field
\* name, value, perimetre, nature), in the order of the fields.
C9_OneTuplePerField ==
    (out.status = "returned" /\ Resolvable(rec)) =>
        LET fs == NumericFields(rec)
        IN  /\ Len(out.rows) = Len(fs)
            /\ \A i \in DOMAIN fs :
                  /\ out.rows[i].metric = fs[i][1]
                  /\ out.rows[i].value = float(fs[i][2])[1]
                  /\ out.rows[i].ts = parse(TimestampOf(rec)[1])[1]

\* C9 with one numeric field: this part holds.
OneFieldOneTuple ==
    (out.status /= "idle" /\ Resolvable(rec) /\ Len(NumericFields(rec)) = 1) =>
        /\ out.status = "returned"
        /\ Len(out.rows) = 1
        /\ out.rows[1].metric = NumericFields(rec)[1][1]
        /\ out.rows[1].value = float(NumericFields(rec)[1][2])[1]

\* C10: for a record with a resolvable timestamp and no numeric field,
\* normalize_record returns the empty list and raises nothing.
C10_NoFieldsNoRows ==
    (out.status /= "idle" /\ Resolvable(rec) /\ NumericFields(rec) = <<>>) =>
        out.status = "returned" /\ out.rows = <<>>

\* no timestamp is found in the record, or the one found is not the well-formed
\* stamp of the records of the model
Unresolved(r) == TimestampOf(r) = <<>> \/ TimestampOf(r)[1] /= PyStr(IsoStamp)

\* C11: for a record whose timestamp cannot be resolved or does not parse,
\* normalize_record returns the empty list and raises nothing, whatever other
\* fields the record has.
C11_NoTimestampNoRows ==
    (out.status /= "idle" /\ Unresolved(rec)) =>
        out.status = "returned" /\ out.rows = <<>> /\ out.error = "none"

\* a record with a numeric field and a date_heure that does not parse was normalized
C11_Witness ==
    /\ out.status = "returned"
    /\ Get(rec, "date_heure", PyNone) = PyStr(<<"n", "/", "a">>)
    /\ NumericFields(rec) /= <<>>

\* a record with a numeric field and no timestamp at all was normalized
C11_WitnessMissing ==
    /\ out.status = "returned"
    /\ TimestampOf(rec) = <<>>
    /\ NumericFields(rec) /= <<>>

----------------------------------------------------------------------------
(* SpecRace: two requests of POST /measurements/ingest served at once.     *)
(* The endpoint is a plain def, so each request runs insert_measurements   *)
(* in its own worker thread; a pass is split where the threads can         *)
(* interleave, between the query of the latest state and client.insert.    *)

\* the writers' variables a request thread of SpecRace does not touch
raceAlone == <<fn, pc, rows, max_retries, retry_seconds, attempts, tries, sleeps, result,
               error, io, appended, last, submitted>>

\* the other request thread
Other(p) == CHOOSE q \in Callers : q /= p

\* ingest_measurements(payload): db.insert_measurements(rows) with the default
\* retry settings; an empty batch returns 0 at once
RaceCall(p, rs) ==
    /\ race[p].pc = "idle"
    /\ nrows + Len(rs) <= MaxRows
    /\ nrows' = nrows + Len(rs)
    /\ race' = [race EXCEPT ![p] =
                  IF NotRows(rs) THEN [NoCall EXCEPT !.pc = "returned", !.result = 0]
                  ELSE [NoCall EXCEPT !.pc = "called", !.rows = rs]]
    /\ UNCHANGED <<measurements, anomalies, ingest_measurements, nlost>>
    /\ UNCHANGED <<raceAlone, normVars, ukeyVars, cycle, hist, passVars>>

\* the pass up to client.insert: stage, _fetch_latest_state, the reconciliation
\* loop; return 0 when nothing is prepared.  seen is the number of rows the store
\* held at the query; raced records that the other thread had fetched from the same
\* store and not yet inserted
RaceFetch(p) ==
    /\ race[p].pc = "called"
    /\ LET r == Reconcile(measurements, race[p].rows)
           q == Other(p)
           both == /\ race[q].pc = "prepared"
                   /\ race[q].seen = Len(measurements)
                   /\ r.prepared_rows /= <<>>
       IN  race' = [race EXCEPT
                      ![p] = IF r.prepared_rows = <<>>
                             THEN [@ EXCEPT !.pc = "returned", !.result = 0,
                                            !.prepared = <<>>, !.raced = FALSE]
                             ELSE [@ EXCEPT !.pc = "prepared",
                                            !.prepared = r.prepared_rows,
                                            !.seen = Len(measurements),
                                            !.raced = both],
                      ![q] = IF both THEN [@ EXCEPT !.raced = TRUE] ELSE @]
    /\ UNCHANGED <<measurements, anomalies, ingest_measurements, nrows, nlost>>
    /\ UNCHANGED <<raceAlone, normVars, ukeyVars, cycle, hist, passVars>>

\* client.insert("measurements", prepared_rows) and return len(prepared_rows)
RaceInsert(p) ==
    /\ race[p].pc = "prepared"
    /\ Insert(ApiMeasurements, race[p].prepared)
    /\ race' = [race EXCEPT ![p] = [@ EXCEPT !.pc = "returned",
                                              !.result = Len(race[p].prepared)]]
    /\ UNCHANGED <<nrows, nlost>>
    /\ UNCHANGED <<raceAlone, normVars, ukeyVars, cycle, hist, passVars>>

\* the pass raises ClickHouseError, before the insert or in it with the prepared
\* rows at the indices keep stored: the attempt is counted, the call raises when
\* max_retries is reached and loops otherwise
RaceFails(p, keep) ==
    /\ race[p].pc \in {"called", "prepared"}
    /\ keep \subseteq DOMAIN race[p].prepared
    /\ race[p].pc = "called" => keep = {}
    /\ nlost + (IF keep = {} THEN 0 ELSE 1) <= MaxLost
    /\ nlost' = nlost + (IF keep = {} THEN 0 ELSE 1)
    /\ Insert(ApiMeasurements, Pick(race[p].prepared, keep, 1))
    /\ race' = [race EXCEPT ![p] =
                  [@ EXCEPT !.attempts = @ + 1,
                            !.pc = IF race[p].attempts + 1 >= DefaultMaxRetries
                                   THEN "raised" ELSE "called",
                            !.prepared = <<>>,
                            !.raced = FALSE]]
    /\ UNCHANGED nrows
    /\ UNCHANGED <<raceAlone, normVars, ukeyVars, cycle, hist, passVars>>

\* the request is answered: InsertResponse, or HTTP 500 for the exception
RaceDone(p) ==
    /\ race[p].pc \in {"returned", "raised"}
    /\ race' = [race EXCEPT ![p] = NoCall]
    /\ UNCHANGED <<measurements, anomalies, ingest_measurements, nrows, nlost>>
    /\ UNCHANGED <<raceAlone, normVars, ukeyVars, cycle, hist, passVars>>

\* the rows of the racing requests: one identity key
RaceRows == {r \in MeasurementRows : r.ts = Utc(900)}

NextRace ==
    \E p \in Callers :
        \/ \E rs \in BatchesOf(RaceRows) : RaceCall(p, rs)
        \/ RaceFetch(p)
        \/ RaceInsert(p)
        \/ \E keep \in SUBSET (1..MaxBatch) : RaceFails(p, keep)
        \/ RaceDone(p)

SpecRace == Init /\ [][NextRace]_vars

----------------------------------------------------------------------------
(* SpecHistory: the detection pass of prefect_worker on a store that       *)
(* insert_measurements of api_data has filled: fetch_anomaly_history reads *)
(* the history through GET /measurements in windows of chunk_hours, then   *)
(* the baseline is built and the recent rows are scored.                   *)

\* chunk_hours of fetch_anomaly_history
ChunkHours == 24

\* limit of fetch_measurements of prefect_worker
WorkerLimit == 5000

\* the while loop of _chunk_time_ranges: pendulum.duration(hours = step_hours) is
\* step_hours * 3600 seconds in UTC
RECURSIVE ChunkLoop(_, _, _, _)
ChunkLoop(cursor, end, step, ranges) ==
    IF cursor < end
    THEN LET next_cursor == IF cursor + step < end THEN cursor + step ELSE end
         IN  ChunkLoop(next_cursor, end, step, Append(ranges, <<cursor, next_cursor>>))
    ELSE ranges

\* anomaly_detection/tasks.py _chunk_time_ranges
_chunk_time_ranges(start, end, step_hours) == ChunkLoop(start, end, step_hours * 3600, <<>>)

\* anomaly_detection/tasks.py _to_iso: the instant as an ISO-8601 string in UTC
_to_iso(t) == Utc(t)

\* ts >= start_ts AND ts <= end_ts AND metric = metric
Matches(r, start_ts, end_ts, metric) ==
    /\ Instant(_ensure_utc(r.ts)) >= Instant(_ensure_utc(start_ts))
    /\ Instant(_ensure_utc(r.ts)) <= Instant(_ensure_utc(end_ts))
    /\ r.metric = metric

\* ORDER BY ts ASC over the rows at the indices idx; prio orders the rows that
\* share a ts, which the query leaves open
RECURSIVE OrderByTs(_, _, _)
OrderByTs(table, idx, prio) ==
    IF idx = {} THEN <<>>
    ELSE LET i == CHOOSE a \in idx : \A b \in idx :
                      \/ Instant(table[a].ts) < Instant(table[b].ts)
                      \/ Instant(table[a].ts) = Instant(table[b].ts) /\ prio[a] <= prio[b]
         IN  <<i>> \o OrderByTs(table, idx \ {i}, prio)

\* the dictionary fetch_measurements of api_data builds for a result row, as the
\* detection pass reads it: ts is the instant pd.to_datetime parses
MeasurementOut(r) ==
    [ts |-> <<Instant(_ensure_utc(r.ts))>>, source |-> r.source, metric |-> r.metric,
     value |-> r.value, ukey |-> r.ukey, version |-> r.version]

\* api_data/db.py fetch_measurements(start_ts, end_ts, metric, limit, order = "asc"):
\* SELECT .. FROM measurements WHERE .. ORDER BY ts ASC LIMIT limit
fetch_measurements(table, start_ts, end_ts, metric, limit, prio) ==
    LET idx == {i \in DOMAIN table : Matches(table[i], start_ts, end_ts, metric)}
        ordered == OrderByTs(table, idx, prio)
        n == AtMost(Len(ordered), limit)
    IN  [k \in 1..n |-> MeasurementOut(table[ordered[k]])]

\* the chunks fetch_anomaly_history gets for its windows, in order
RECURSIVE FetchWindows(_, _, _, _)
FetchWindows(table, windows, metric, prio) ==
    IF windows = <<>> THEN <<>>
    ELSE <<fetch_measurements(table, _to_iso(Head(windows)[1]), _to_iso(Head(windows)[2]),
                              metric, WorkerLimit, prio)>>
         \o FetchWindows(table, Tail(windows), metric, prio)

\* rows.extend(chunk) for every chunk
RECURSIVE Extend(_)
Extend(chunks) == IF chunks = <<>> THEN <<>> ELSE Head(chunks) \o Extend(Tail(chunks))

\* the writers' variables the detection pass does not touch
historyAlone == <<measurements, anomalies, ingest_measurements, fn, pc, rows, max_retries,
                  retry_seconds, attempts, tries, sleeps, result, error, io, appended, last,
                  submitted, nrows, nlost>>

\* anomaly_detection_cycle up to the end of fetch_anomaly_history: history_start and
\* now are fixed, the windows are fetched one after the other and the chunks are
\* joined into rows.  store is the table as the queries found it; the order of the
\* rows that share a ts is any
FetchAnomalyHistory(h, c, metric) ==
    /\ cycle.pc = "idle"
    /\ hist.pc = "idle"
    /\ \E prio \in Permutations(DOMAIN measurements) :
       LET windows == _chunk_time_ranges(h[1], h[2], ChunkHours)
           chunks == FetchWindows(measurements, windows, metric, prio)
       IN  /\ hist' = [pc |-> "fetched", start_ts |-> h[1], end_ts |-> h[2],
                       metric |-> metric, windows |-> windows, chunks |-> chunks,
                       store |-> measurements]
           /\ cycle' = [cycle EXCEPT !.pc = "fetched", !.rows = Extend(chunks),
                                     !.eval_start = c[1], !.min_samples = c[2],
                                     !.z_threshold = c[3]]
    /\ UNCHANGED <<historyAlone, normVars, ukeyVars, race, passVars>>

\* db.fetch_measurements raises in every run of the task: the exception leaves the
\* flow
FetchAnomalyHistoryFails(h, c) ==
    /\ cycle.pc = "idle"
    /\ hist.pc = "idle"
    /\ hist' = [hist EXCEPT !.pc = "raised", !.start_ts = h[1], !.end_ts = h[2]]
    /\ cycle' = [cycle EXCEPT !.pc = "raised", !.eval_start = c[1], !.min_samples = c[2],
                              !.z_threshold = c[3]]
    /\ UNCHANGED <<historyAlone, normVars, ukeyVars, race, passVars>>

\* the rows written before the detection pass: two quarter hours, one and three
\* weeks after the first Thursday 00:00, of two metrics
HistoryRows ==
    [ts : {Utc(604800), Utc(1814400)}, source : {"France"},
     metric : {"consommation", "taux_co2"}, value : {Num(100), Num(105)},
     perimetre : {"France"}, nature : {"Donnees temps reel"}]

\* <<history_start, now>>: 22 days that begin at a midnight, and an hour later
HistoryRanges == {<<0, 1900800>>, <<3600, 1904400>>}

NextHistory ==
    \/ \E rs \in BatchesOf(HistoryRows) :
         Call(ApiMeasurements, rs, DefaultMaxRetries, DefaultRetrySeconds)
    \/ AttemptReturns
    \/ Done
    \/ \E h \in HistoryRanges : \E c \in CycleSettings :
         FetchAnomalyHistory(h, c, "consommation")
    \/ \E h \in HistoryRanges : \E c \in CycleSettings : FetchAnomalyHistoryFails(h, c)
    \/ BuildBaseline
    \/ ScoreAnomalies

SpecHistory == Init /\ [][NextHistory]_vars

----------------------------------------------------------------------------
(* SpecTasks: write_rows of the worker's ingestion tasks, which calls the  *)
(* insert_measurements of ingestion/tasks.py with the default retry        *)
(* settings.  The module imports no time.                                  *)

\* a pass through the try block of insert_measurements of ingestion/tasks.py in
\* which the POST raises requests.RequestException, the Data API having stored all
\* or none of the rows it prepared: the except clause counts the attempt and raises
\* when max_retries is reached; otherwise it evaluates time.sleep, and the name time
\* is not defined in the module
TaskAttemptFails(keep) ==
    /\ pc = "attempt"
    /\ fn = TaskMeasurements
    /\ LET plan == Plan(fn, rows)
           written == Pick(plan.prepared, keep, 1)
       IN  /\ keep \in Leftovers(plan, "post")
           /\ nlost + (IF keep = {} THEN 0 ELSE 1) <= MaxLost
           /\ nlost' = nlost + (IF keep = {} THEN 0 ELSE 1)
           /\ Insert(fn, written)
           /\ io' = io \cup {"post"}
           /\ appended' = appended + Len(written)
           /\ last' = [plan.last EXCEPT !.written = written]
    /\ tries' = tries + 1
    /\ attempts' = attempts + 1
    /\ pc' = "raised"
    /\ error' = IF Exhausted(attempts') THEN TransientOf(fn) ELSE "NameError"
    /\ UNCHANGED <<fn, rows, max_retries, retry_seconds, sleeps, result, submitted, nrows>>
    /\ UNCHANGED funVars

NextTasks ==
    \/ \E rs \in BatchesOf(WriterRows(TaskMeasurements)) : \E rt \in RetrySettings :
         Call(TaskMeasurements, rs, rt[1], rt[2])
    \/ AttemptReturns
    \/ \E keep \in SUBSET (1..Len(rows)) : TaskAttemptFails(keep)
    \/ AttemptCrashes
    \/ Done

SpecTasks == Init /\ [][NextTasks]_vars

----------------------------------------------------------------------------
(* SpecFetch: the paginated fetch of the upstream API, _fetch_all_results  *)
(* of the ingest service and the task fetch_api_results of the worker.     *)
(* A page is the sequence of the records of "results"; the upstream        *)
(* returns at most limit records for a request.                            *)

Ingest == "ingest"

Worker == "prefect_worker"

\* page_limit of _fetch_all_results and of fetch_api_results
DefaultPageLimit == 100

\* retries of the task fetch_api_results
TaskRetries == 2

\* the records of the upstream: a timestamp and a numeric field, a timestamp and
\* a field that is null, a numeric field and nothing to make a timestamp of
GoodRecord == <<<<"date_heure", PyStr(IsoStamp)>>, <<"consommation", PyNum(10)>>>>

NullRecord == <<<<"date_heure", PyStr(IsoStamp)>>, <<"consommation", PyNone>>>>

UndatedRecord == <<<<"gaz", PyNum(7)>>>>

UpstreamRecords == {GoodRecord, NullRecord, UndatedRecord}

\* the pages the upstream can return for a request with limit
PagesOf(limit) == UNION {[1..n -> UpstreamRecords] : n \in 0..limit}

\* len(results) < page_limit with <= for <
ShortPageOrFull(results, page_limit) == Len(results) <= page_limit

\* len(results) < page_limit
ShortPage(results, page_limit) == Len(results) < page_limit

\* a run of the function raises: Prefect runs the task fetch_api_results again, up to
\* TaskRetries times, before the exception reaches the flow; _fetch_all_results is a
\* plain function
RunRaises(f, exc) ==
    IF f.svc = Worker /\ f.runs <= TaskRetries
    THEN [f EXCEPT !.pc = "retrying", !.error = exc]
    ELSE [f EXCEPT !.pc = "raised", !.error = exc]

\* the start of a run: fetch_api_results refuses an empty api_url; all_results = [],
\* offset = 0
RunBegins(f) ==
    LET g == [f EXCEPT !.runs = @ + 1, !.offset = 0, !.all_results = <<>>,
                       !.requests = <<>>, !.pages = <<>>, !.full = 0, !.error = "none"]
    IN  IF g.svc = Worker /\ g.api_url = ""
        THEN RunRaises(g, "ValueError")
        ELSE [g EXCEPT !.pc = "paging"]

\* the function is called
FetchBegins(svc, api_url, page_limit) ==
    /\ fetch.pc = "idle"
    /\ fetch' = RunBegins([fetch EXCEPT !.svc = svc, !.api_url = api_url,
                                        !.page_limit = page_limit, !.runs = 0,
                                        !.http = 0])

\* one pass through the while loop in which the GET answers with page: stop on an
\* empty page; extend all_results; stop on a short page; offset += page_limit
FetchPage(page) ==
    /\ fetch.pc = "paging"
    /\ Len(page) <= fetch.page_limit
    /\ Len(page) = fetch.page_limit => fetch.full < MaxPages
    /\ LET asked == [fetch EXCEPT
                       !.requests = Append(@, [limit |-> fetch.page_limit,
                                               offset |-> fetch.offset]),
                       !.pages = Append(@, page),
                       !.http = @ + 1]
       IN  fetch' =
             IF page = <<>> THEN [asked EXCEPT !.pc = "returned"]
             ELSE IF ShortPage(page, fetch.page_limit)
             THEN [asked EXCEPT !.pc = "returned", !.all_results = @ \o page]
             ELSE [asked EXCEPT !.all_results = @ \o page,
                                !.offset = @ + fetch.page_limit, !.full = @ + 1]
    /\ UNCHANGED <<writerVars, normVars, ukeyVars, cycle, race, hist, ing>>

\* one pass through the while loop in which requests.get or raise_for_status raises
FetchPageFails ==
    /\ fetch.pc = "paging"
    /\ fetch' = RunRaises([fetch EXCEPT
                             !.requests = Append(@, [limit |-> fetch.page_limit,
                                                     offset |-> fetch.offset]),
                             !.http = @ + 1],
                          "RequestException")
    /\ UNCHANGED <<writerVars, normVars, ukeyVars, cycle, race, hist, ing>>

\* Prefect runs the task again after retry_delay_seconds
TaskRuns ==
    /\ fetch.pc = "retrying"
    /\ fetch' = RunBegins(fetch)
    /\ UNCHANGED <<writerVars, normVars, ukeyVars, cycle, race, hist, ing>>

\* the function is called on its own
Fetch(svc, api_url, page_limit) ==
    /\ ing.pc = "idle"
    /\ FetchBegins(svc, api_url, page_limit)
    /\ UNCHANGED <<writerVars, normVars, ukeyVars, cycle, race, hist, ing>>

\* the caller has the results, or the exception
FetchDone ==
    /\ ing.pc = "idle"
    /\ fetch.pc \in {"returned", "raised"}
    /\ fetch' = NoFetch
    /\ UNCHANGED <<writerVars, normVars, ukeyVars, cycle, race, hist, ing>>

\* the calls of SpecFetch: short pages
FetchCalls == {<<Ingest, "url", 1>>, <<Ingest, "url", 2>>, <<Worker, "url", 2>>,
               <<Worker, "", 2>>}

\* a step of a running fetch
FetchStep ==
    \/ \E page \in PagesOf(MaxPage) : FetchPage(page)
    \/ FetchPageFails
    \/ TaskRuns

NextFetch ==
    \/ \E c \in FetchCalls : Fetch(c[1], c[2], c[3])
    \/ \E page \in PagesOf(MaxPage) : FetchPage(page)
    \/ FetchPageFails
    \/ TaskRuns
    \/ FetchDone

SpecFetch == Init /\ [][NextFetch]_vars

\* SpecFetch in which a running fetch goes on: a GET returns or times out
SpecFetchLive == SpecFetch /\ WF_vars(FetchStep)

----------------------------------------------------------------------------
(* SpecPass: the ingestion passes of the two services.  The ingest service *)
(* (main, bootstrap_history, run_loop, fetch_and_store_once) writes the    *)
(* table measurements of its own deployment; ingest_cycle of the worker    *)
(* writes through the Data API.  A service that has ended can be started   *)
(* again; the tables keep their rows.                                      *)

\* the variables the passes leave alone
passAlone == <<fn, pc, rows, max_retries, retry_seconds, attempts, tries, sleeps, result,
               error, io, appended, last, submitted, nrows, nlost, normVars, ukeyVars,
               cycle, race, hist>>

\* days from 1970-01-01 to the date <<y, m, d>> of the proleptic Gregorian calendar
DaysFromCivil(ymd) ==
    LET y == IF ymd[2] <= 2 THEN ymd[1] - 1 ELSE ymd[1]
        era == y \div 400
        yoe == y - era * 400
        mp == (ymd[2] + 9) % 12
        doy == (153 * mp + 2) \div 5 + ymd[3] - 1
        doe == yoe * 365 + yoe \div 4 - yoe \div 100 + doy
    IN  era * 146097 + doe - 719468

\* the tuple (ts, source, metric, value, perimetre, nature) of normalize_record as the
\* writers take it: the datetime as seconds on its own clock with its zone, the float
\* as a value of the column
AsRow(t) ==
    [ts |-> [wall |-> 86400 * DaysFromCivil(t.ts.ymd) + 3600 * t.ts.hms[1]
                      + 60 * t.ts.hms[2] + t.ts.hms[3],
             tz |-> t.ts.tz],
     source |-> t.source, metric |-> t.metric, value |-> Num(t.value),
     perimetre |-> t.perimetre, nature |-> t.nature]

AsRows(ts) == [i \in DOMAIN ts |-> AsRow(ts[i])]

\* "for rec in results: rows = normalize_record(rec); all_rows.extend(rows)": the
\* list, or the exception of the first record normalize_record raises on
RECURSIVE NormalizeAll(_)
NormalizeAll(results) ==
    IF results = <<>> THEN [status |-> "returned", rows |-> <<>>, error |-> "none"]
    ELSE LET n == normalize_record(Head(results))
         IN  IF n.status = "raised" THEN n
             ELSE LET rest == NormalizeAll(Tail(results))
                  IN  IF rest.status = "raised" THEN rest
                      ELSE [rest EXCEPT !.rows = n.rows \o @]

\* normalize_chunk of the worker.  Its normalize_record is imported from
\* ingestion.transform: it raises (ok false) or returns, and then the tuples are
\* those of the records the normalizer of the ingest service returns tuples for
RECURSIVE normalize_chunk(_, _)
normalize_chunk(results, ok) ==
    IF ~ok THEN [status |-> "raised", rows |-> <<>>, error |-> "Exception"]
    ELSE IF results = <<>> THEN [status |-> "returned", rows |-> <<>>, error |-> "none"]
    ELSE LET n == normalize_record(Head(results))
             rest == normalize_chunk(Tail(results), ok)
         IN  [rest EXCEPT !.rows = n.rows \o @]

\* "clean = {k: v for k, v in rec.items() if v is not None}"
CleanRecord(r) == SelectSeq(r, LAMBDA item : item[2].kind /= "none")

CleanAll(file) == [i \in DOMAIN file |-> CleanRecord(file[i])]

HistoryStamp ==
    <<"2", "0", "2", "4", "-", "1", "2", "-", "3", "1", "T", "1", "2", ":", "3", "0",
      ":", "0", "0", "+", "0", "0", ":", "0", "0">>

\* the rows of the history file after the renaming of the columns: a quarter hour
\* with its consumption, a quarter hour whose cell is empty
HistoryRecord == <<<<"date_heure", PyStr(HistoryStamp)>>, <<"consommation", PyNum(12)>>>>

EmptyHistoryRecord == <<<<"date_heure", PyStr(HistoryStamp)>>, <<"consommation", PyNone>>>>

\* the history files: without rows, with one row, with a row whose cell is empty
HistoryFiles == {<<>>, <<HistoryRecord>>, <<HistoryRecord, EmptyHistoryRecord>>}

\* "if not check_db_emptiness(): return False" with the test left out
AlreadyHasDataNever(empty) == FALSE

\* "if not check_db_emptiness(): return False"
AlreadyHasData(empty) == ~empty

\* "if check_db_empty():" with the test left out
BootstrapsAlways(empty) == TRUE

\* "if check_db_empty():"
Bootstraps(empty) == empty

\* a service ends, or a flow run ends: the next start finds the tables as they are
Ended == [NoPass EXCEPT !.passes = ing.passes]

\* main() of the ingest service runs up to bootstrap_history()
IngestStarts(api_url) ==
    /\ ing.pc = "idle"
    /\ fetch.pc = "idle"
    /\ ing.passes < MaxCycles
    /\ ing' = [NoPass EXCEPT !.svc = Ingest, !.pc = "main", !.api_url = api_url,
                             !.passes = ing.passes + 1]
    /\ UNCHANGED <<measurements, anomalies, ingest_measurements, fetch, passAlone>>

\* bootstrap_history() of the ingest service on the history file: the count query
\* raises (fail "check"), the table has rows, the download raises (fail "download"),
\* normalize_record raises, the insert gives up leaving the rows at keep written
\* (fail "insert"), or the rows are inserted.  An exception leaves main()
IngestBootstrap(file, fail, keep) ==
    /\ ing.pc = "main"
    /\ \E norm \in {NormalizeAll(CleanAll(file))} :
       \E plan \in {Plan(IngestMeasurements, AsRows(norm.rows))} :
       LET empty == Len(ingest_measurements) = 0
           left == Pick(plan.prepared, keep, 1)
           seen == [ing EXCEPT !.empty = <<empty>>]
           down == [seen EXCEPT !.downloads = @ + 1]
           dead == [down EXCEPT !.pc = "dead", !.boot = "failed"]
       IN  IF fail = "check"
           THEN /\ ing' = [ing EXCEPT !.pc = "dead", !.boot = "failed",
                                      !.error = "ClickHouseError"]
                /\ Insert(IngestMeasurements, <<>>)
           ELSE IF AlreadyHasData(empty)
           THEN /\ ing' = [seen EXCEPT !.pc = "loop", !.boot = "skipped"]
                /\ Insert(IngestMeasurements, <<>>)
           ELSE IF fail = "download"
           THEN /\ ing' = [dead EXCEPT !.error = "URLError"]
                /\ Insert(IngestMeasurements, <<>>)
           ELSE IF norm.status = "raised"
           THEN /\ ing' = [dead EXCEPT !.error = norm.error]
                /\ Insert(IngestMeasurements, <<>>)
           ELSE IF NotRows(norm.rows)
           THEN /\ ing' = [down EXCEPT !.pc = "loop", !.boot = "done"]
                /\ Insert(IngestMeasurements, <<>>)
           ELSE IF fail = "insert"
           THEN /\ keep \in Leftovers(plan, "insert")
                /\ ing' = [dead EXCEPT !.error = "ClickHouseError",
                                       !.boot_rows = Len(left)]
                /\ Insert(IngestMeasurements, left)
           ELSE /\ ing' = [down EXCEPT !.pc = "loop", !.boot = "done",
                                       !.boot_rows = Len(plan.prepared)]
                /\ Insert(IngestMeasurements, plan.prepared)
    /\ UNCHANGED <<fetch, passAlone>>

\* run_loop calls fetch_and_store_once: without an API_URL it returns (0, 1), else
\* it calls _fetch_all_results(api_url)
IngestCycle ==
    /\ ing.svc = Ingest
    /\ ing.pc = "loop"
    /\ ing.passes < MaxCycles
    /\ LET begun == [ing EXCEPT !.passes = @ + 1, !.cycles = @ + 1, !.result = <<>>,
                                !.http = 0, !.stores = 0]
       IN  IF ing.api_url = ""
           THEN /\ ing' = [begun EXCEPT !.pc = "sleeping", !.result = <<0, 1>>]
                /\ fetch' = fetch
           ELSE /\ ing' = [begun EXCEPT !.pc = "fetching", !.fetches = @ + 1]
                /\ FetchBegins(Ingest, ing.api_url, DefaultPageLimit)
    /\ UNCHANGED <<measurements, anomalies, ingest_measurements, passAlone>>

\* fetch_and_store_once after _fetch_all_results: (0, 1) when the fetch raised; the
\* loop over normalize_record, whose exception nothing catches; the insert, which
\* gives up leaving the rows at keep written (fail) or returns
IngestStores(fail, keep) ==
    /\ ing.svc = Ingest
    /\ ing.pc = "fetching"
    /\ fetch.pc \in {"returned", "raised"}
    /\ \E norm \in {NormalizeAll(fetch.all_results)} :
       \E plan \in {Plan(IngestMeasurements, AsRows(norm.rows))} :
       LET left == Pick(plan.prepared, keep, 1)
           got == [ing EXCEPT !.http = fetch.http]
       IN  IF fetch.pc = "raised"
           THEN /\ ing' = [got EXCEPT !.pc = "sleeping", !.result = <<0, 1>>]
                /\ Insert(IngestMeasurements, <<>>)
           ELSE IF norm.status = "raised"
           THEN /\ ing' = [got EXCEPT !.pc = "stopped", !.error = norm.error]
                /\ Insert(IngestMeasurements, <<>>)
           ELSE IF NotRows(norm.rows)
           THEN /\ ing' = [got EXCEPT !.pc = "sleeping", !.result = <<0, 0>>]
                /\ Insert(IngestMeasurements, <<>>)
           ELSE IF fail
           THEN /\ keep \in Leftovers(plan, "insert")
                /\ ing' = [got EXCEPT !.pc = "sleeping", !.result = <<0, 1>>,
                                      !.stores = @ + 1, !.api_rows = @ + Len(left)]
                /\ Insert(IngestMeasurements, left)
           ELSE /\ ing' = [got EXCEPT !.pc = "sleeping", !.result = <<plan.ret, 0>>,
                                      !.stores = @ + 1,
                                      !.api_rows = @ + Len(plan.prepared)]
                /\ Insert(IngestMeasurements, plan.prepared)
    /\ fetch' = NoFetch
    /\ UNCHANGED passAlone

\* "time.sleep(interval_seconds)" and the next pass through "while True"
IngestSleeps ==
    /\ ing.svc = Ingest
    /\ ing.pc = "sleeping"
    /\ ing' = [ing EXCEPT !.pc = "loop"]
    /\ UNCHANGED <<measurements, anomalies, ingest_measurements, fetch, passAlone>>

\* the process of the ingest service ends: main() raised, the thread of run_loop
\* died, or the container is stopped while the loop sleeps
IngestEnds ==
    /\ ing.svc = Ingest
    /\ ing.pc \in {"dead", "stopped", "sleeping"}
    /\ ing' = Ended
    /\ UNCHANGED <<measurements, anomalies, ingest_measurements, fetch, passAlone>>

\* a run of the flow ingest_cycle(api_url) begins
WorkerStarts(api_url) ==
    /\ ing.pc = "idle"
    /\ fetch.pc = "idle"
    /\ ing.passes < MaxCycles
    /\ ing' = [NoPass EXCEPT !.svc = Worker, !.pc = "check", !.api_url = api_url,
                             !.passes = ing.passes + 1, !.cycles = 1]
    /\ UNCHANGED <<measurements, anomalies, ingest_measurements, fetch, passAlone>>

\* check_db_empty(): the count of the Data API, or its exception
WorkerChecks(ok) ==
    /\ ing.svc = Worker
    /\ ing.pc = "check"
    /\ LET empty == Len(measurements) = 0
       IN  ing' = IF ~ok
                  THEN [ing EXCEPT !.pc = "aborted", !.error = "RequestException",
                                   !.result = <<0, 1>>]
                  ELSE [ing EXCEPT !.empty = <<empty>>,
                                   !.pc = IF Bootstraps(empty) THEN "bootstrap"
                                          ELSE "fetch"]
    /\ UNCHANGED <<measurements, anomalies, ingest_measurements, fetch, passAlone>>

\* bootstrap_history() of the worker: the rows of the history file, or the
\* exception of the download or of the normalizer
WorkerBootstraps(file, ok) ==
    /\ ing.svc = Worker
    /\ ing.pc = "bootstrap"
    /\ \E norm \in {normalize_chunk(CleanAll(file), ok)} :
       LET down == [ing EXCEPT !.downloads = @ + 1]
       IN  ing' = IF norm.status = "raised"
                  THEN [down EXCEPT !.pc = "aborted", !.boot = "failed",
                                    !.error = norm.error, !.result = <<0, 1>>]
                  ELSE [down EXCEPT !.pc = "boot_write", !.all_rows = AsRows(norm.rows)]
    /\ UNCHANGED <<measurements, anomalies, ingest_measurements, fetch, passAlone>>

\* write_rows(rows) when the request of insert_measurements does what plan says: 0
\* for no rows; the request succeeds, or it fails (the rows stored or not) and the
\* exception leaves the task
WriteRowsAs(plan, rs, fail, stored) ==
    IF NotRows(rs) THEN [status |-> "returned", written |-> <<>>, n |-> 0]
    ELSE IF fail
    THEN [status |-> "raised", written |-> IF stored THEN plan.prepared ELSE <<>>,
          n |-> 0]
    ELSE [status |-> "returned", written |-> plan.prepared, n |-> plan.ret]

\* write_rows(rows) of the worker
WriteRows(rs, fail, stored) == WriteRowsAs(Plan(TaskMeasurements, rs), rs, fail, stored)

\* "bootstrap_counts.append(write_rows(bootstrap_rows))"
WorkerWritesBootstrap(fail, stored) ==
    /\ ing.svc = Worker
    /\ ing.pc = "boot_write"
    /\ \E w \in {WriteRows(ing.all_rows, fail, stored)} :
       LET wrote == [ing EXCEPT !.boot_rows = Len(w.written), !.all_rows = <<>>]
       IN  /\ ing' = IF w.status = "raised"
                     THEN [wrote EXCEPT !.pc = "aborted", !.boot = "failed",
                                        !.error = "NameError", !.result = <<0, 1>>]
                     ELSE [wrote EXCEPT !.pc = "fetch", !.boot = "done"]
           /\ Insert(TaskMeasurements, w.written)
    /\ UNCHANGED <<fetch, passAlone>>

\* "results = fetch_api_results(api_url)": the task is called
WorkerFetches ==
    /\ ing.svc = Worker
    /\ ing.pc = "fetch"
    /\ ing' = [ing EXCEPT !.pc = "fetching", !.fetches = @ + 1]
    /\ FetchBegins(Worker, ing.api_url, DefaultPageLimit)
    /\ UNCHANGED <<measurements, anomalies, ingest_measurements, passAlone>>

\* ingest_cycle after fetch_api_results: its exception leaves the flow; else
\* "rows = normalize_chunk(results)" and "written = write_rows(rows)"
WorkerWrites(ok, fail, stored) ==
    /\ ing.svc = Worker
    /\ ing.pc = "fetching"
    /\ fetch.pc \in {"returned", "raised"}
    /\ \E norm \in {normalize_chunk(fetch.all_results, ok)} :
       \E w \in {WriteRows(AsRows(norm.rows), fail, stored)} :
       LET got == [ing EXCEPT !.http = fetch.http, !.runs = fetch.runs]
       IN  IF fetch.pc = "raised"
           THEN /\ ing' = [got EXCEPT !.pc = "aborted", !.error = fetch.error,
                                      !.result = <<0, 1>>]
                /\ Insert(TaskMeasurements, <<>>)
           ELSE IF norm.status = "raised"
           THEN /\ ing' = [got EXCEPT !.pc = "aborted", !.error = norm.error,
                                      !.result = <<0, 1>>]
                /\ Insert(TaskMeasurements, <<>>)
           ELSE /\ ing' = IF w.status = "raised"
                          THEN [got EXCEPT !.pc = "aborted", !.error = "NameError",
                                           !.result = <<0, 1>>, !.stores = @ + 1,
                                           !.api_rows = @ + Len(w.written)]
                          ELSE [got EXCEPT !.pc = "done", !.result = <<w.n, 0>>,
                                           !.stores = @ + (IF NotRows(norm.rows)
                                                           THEN 0 ELSE 1),
                                           !.api_rows = @ + Len(w.written)]
                /\ Insert(TaskMeasurements, w.written)
    /\ fetch' = NoFetch
    /\ UNCHANGED passAlone

\* the flow run has returned or raised
WorkerEnds ==
    /\ ing.svc = Worker
    /\ ing.pc \in {"done", "aborted"}
    /\ ing' = Ended
    /\ UNCHANGED <<measurements, anomalies, ingest_measurements, fetch, passAlone>>

\* API_URL of the configuration: set, or empty
ApiUrls == {"url", ""}

NextPass ==
    \/ \E api_url \in ApiUrls : IngestStarts(api_url)
    \/ \E file \in HistoryFiles : \E fail \in {"none", "check", "download", "insert"} :
         \E keep \in SUBSET (1..Len(file)) : IngestBootstrap(file, fail, keep)
    \/ IngestCycle
    \/ \E fail \in BOOLEAN : \E keep \in SUBSET (1..MaxPage) : IngestStores(fail, keep)
    \/ IngestSleeps
    \/ IngestEnds
    \/ \E api_url \in ApiUrls : WorkerStarts(api_url)
    \/ \E ok \in BOOLEAN : WorkerChecks(ok)
    \/ \E file \in HistoryFiles : \E ok \in BOOLEAN : WorkerBootstraps(file, ok)
    \/ \E fail, stored \in BOOLEAN : WorkerWritesBootstrap(fail, stored)
    \/ WorkerFetches
    \/ \E ok, fail, stored \in BOOLEAN : WorkerWrites(ok, fail, stored)
    \/ WorkerEnds
    \/ \E page \in PagesOf(MaxPage) : FetchPage(page)
    \/ FetchPageFails
    \/ TaskRuns

SpecPass == Init /\ [][NextPass]_vars

----------------------------------------------------------------------------
(* Properties of the anomaly detection cycle (SpecAnomaly).                *)

\* the row has a timestamp and a value
Usable(r) == r.ts /= <<>> /\ r.value /= None

InFrame(r, df) == \E i \in DOMAIN df : df[i] = r

UsableRows == {cycle.rows[i] : i \in {j \in DOMAIN cycle.rows : Usable(cycle.rows[j])}}

BaselineBuilt == cycle.pc \in {"built", "scored", "written", "raised"}

Scored == cycle.pc \in {"scored", "written", "raised"}

SamplesOf(k) ==
    {i \in DOMAIN cycle.rows :
        /\ Usable(cycle.rows[i])
        /\ cycle.rows[i].ts[1] < cycle.eval_start
        /\ BucketOf(cycle.rows[i]) = k}

AllBuckets ==
    {<<dayofweek(AnomalyTimestamps[i]), hour(AnomalyTimestamps[i]),
       minute(AnomalyTimestamps[i])>> : i \in DOMAIN AnomalyTimestamps}

BucketsOfBaseline == {<<b.dow, b.hour, b.minute>> : b \in cycle.baseline}

\* C14: a (dow, hour, minute) bucket is in the baseline exactly when at least
\* min_samples usable rows strictly before eval_start fall in it, and it carries
\* their number as its sample count.
C14_BucketNeedsMinSamples ==
    BaselineBuilt =>
        /\ \A k \in AllBuckets :
              k \in BucketsOfBaseline <=> Cardinality(SamplesOf(k)) >= cycle.min_samples
        /\ \A b \in cycle.baseline :
              b.samples = Cardinality(SamplesOf(<<b.dow, b.hour, b.minute>>))

\* a bucket of exactly min_samples rows, min_samples > 1, is in the baseline
C14_Witness ==
    /\ cycle.pc = "built"
    /\ cycle.min_samples > 1
    /\ \E b \in cycle.baseline : b.samples = cycle.min_samples

\* a bucket of min_samples - 1 rows, min_samples > 1, is not in the baseline
C14_WitnessBelow ==
    /\ cycle.pc = "built"
    /\ cycle.min_samples > 1
    /\ \E k \in AllBuckets :
          /\ Cardinality(SamplesOf(k)) = cycle.min_samples - 1
          /\ k \notin BucketsOfBaseline

\* the values of the samples of the bucket k are not all the same
Spread(k) ==
    \E i, j \in SamplesOf(k) : cycle.rows[i].value /= cycle.rows[j].value

\* the anomaly comes from a bucket with enough samples and a standard deviation
\* that is defined and not zero
FromUsableBucket(a) ==
    /\ Cardinality(SamplesOf(<<a.dow, a.hour, a.minute>>)) >= cycle.min_samples
    /\ Spread(<<a.dow, a.hour, a.minute>>)
    /\ a.std.kind = "num"
    /\ a.std.sq.num > 0

\* C15: every anomaly score_anomalies returns, every tuple write_anomalies hands to
\* db.insert_anomalies and every row of the anomalies table comes from a bucket with
\* at least min_samples samples and a defined, non-zero standard deviation; rows in
\* other buckets or in no bucket are left out and the cycle goes on.
C15_OnlyUsableBuckets ==
    /\ \A i \in DOMAIN cycle.anomalies : FromUsableBucket(cycle.anomalies[i])
    /\ \A i \in DOMAIN cycle.handed : FromUsableBucket(cycle.handed[i])
    /\ \A i \in DOMAIN anomalies : FromUsableBucket(anomalies[i])
    /\ Scored =>
          \A i \in DOMAIN cycle.eval_df :
              LET r == cycle.eval_df[i]
                  k == BucketOf(r)
              IN  (Cardinality(SamplesOf(k)) < cycle.min_samples \/ ~Spread(k))
                      => \A j \in DOMAIN cycle.anomalies : cycle.anomalies[j].ts /= r.ts

\* a cycle ended with nothing to write after it left out a value of 130 matched to
\* a bucket whose samples all have the same value
C15_Witness ==
    /\ cycle.pc = "written"
    /\ \E i \in DOMAIN cycle.merged :
          /\ cycle.merged[i].value = Num(130)
          /\ cycle.merged[i].samples >= 2
          /\ cycle.merged[i].std.kind = "nan"
    /\ cycle.anomalies = <<>>

\* a row of the evaluation window that falls in no bucket of the baseline was left
\* out while another row was flagged and written
C15_WitnessNoBucket ==
    /\ cycle.pc = "written"
    /\ Len(anomalies) > 0
    /\ \E i \in DOMAIN cycle.eval_df :
          BucketOf(cycle.eval_df[i]) \notin BucketsOfBaseline

\* the number, the sum and the sum of squares of the values of the samples of k
SampleValues(k) == SelectSeq(cycle.rows, LAMBDA r :
    Usable(r) /\ r.ts[1] < cycle.eval_start /\ BucketOf(r) = k)

\* |(value - mean) / std| >= z_threshold for the bucket of n samples, sum S and sum
\* of squares Q, n > 1 and n * Q > S * S, by cross-multiplication:
\* (n * value - S)^2 * (n - 1) >= z_threshold^2 * n * (n * Q - S^2)
Deviates(value, k) ==
    LET g == SampleValues(k)
        n == Len(g)
        S == SumOf(g)
        Q == SumOfSquares(g)
    IN  (n * value - S) * (n * value - S) * (n - 1)
            >= cycle.z_threshold * cycle.z_threshold * n * (n * Q - S * S)

IsAnomaly(m) == \E j \in DOMAIN cycle.anomalies : cycle.anomalies[j] = m

\* C16: a row matched to a bucket with a defined, non-zero std is flagged exactly
\* when |(value - mean) / std| >= z_threshold, equality included; with mean 100,
\* std 5 and threshold 3 the value 130 is flagged with z-score 6 and the value 110
\* is not; a flagged record carries the threshold, the mean, the std and the
\* coordinates of its bucket.
C16_FlaggedAtThreshold ==
    Scored =>
        /\ \A i \in DOMAIN cycle.merged :
              LET m == cycle.merged[i]
                  k == <<m.dow, m.hour, m.minute>>
              IN  (m.std.kind = "num" /\ m.std.sq.num > 0) =>
                      /\ IsAnomaly(m) <=> Deviates(m.value.x, k)
                      /\ (m.mean = Frac(100, 1) /\ m.std.sq = Frac(25, 1)
                            /\ cycle.z_threshold = 3) =>
                            /\ m.value = Num(130) =>
                                  IsAnomaly(m) /\ m.zscore.sq = Frac(36, 1)
                                               /\ m.zscore.sign = 1
                            /\ m.value = Num(110) =>
                                  ~IsAnomaly(m) /\ m.zscore.sq = Frac(4, 1)
        /\ \A j \in DOMAIN cycle.anomalies :
              LET a == cycle.anomalies[j]
                  k == <<a.dow, a.hour, a.minute>>
              IN  /\ a.threshold = cycle.z_threshold
                  /\ k = BucketOf(a)
                  /\ \E b \in cycle.baseline :
                        /\ <<b.dow, b.hour, b.minute>> = k
                        /\ a.mean = b.mean /\ a.std = b.std
                  /\ a.mean = Frac(SumOf(SampleValues(k)), Len(SampleValues(k)))

\* with mean 100, std 5 and threshold 3, the value 130 was flagged
C16_Witness ==
    /\ cycle.pc = "scored"
    /\ cycle.z_threshold = 3
    /\ \E j \in DOMAIN cycle.anomalies :
          /\ cycle.anomalies[j].value = Num(130)
          /\ cycle.anomalies[j].mean = Frac(100, 1)
          /\ cycle.anomalies[j].std.sq = Frac(25, 1)

\* with mean 100, std 5 and threshold 3, the value 110 was matched and not flagged
C16_WitnessBelow ==
    /\ cycle.pc = "scored"
    /\ cycle.z_threshold = 3
    /\ \E i \in DOMAIN cycle.merged :
          /\ cycle.merged[i].value = Num(110)
          /\ cycle.merged[i].mean = Frac(100, 1)
          /\ cycle.merged[i].std.sq = Frac(25, 1)
          /\ ~IsAnomaly(cycle.merged[i])

\* with mean 100, std 5 and threshold 2, the value 110 (z-score 2) was flagged
C16_WitnessEqual ==
    /\ cycle.pc = "scored"
    /\ cycle.z_threshold = 2
    /\ \E j \in DOMAIN cycle.anomalies :
          /\ cycle.anomalies[j].value = Num(110)
          /\ cycle.anomalies[j].std.sq = Frac(25, 1)
          /\ cycle.anomalies[j].zscore.sq = Frac(4, 1)

----------------------------------------------------------------------------
(* Properties of the sequential write mode (Spec).                         *)

Versions(rs) == [i \in DOMAIN rs |-> rs[i].version]

ValuesOf(rs) == [i \in DOMAIN rs |-> rs[i].value]

\* each value differs from the one handed in before it
ConsecutiveDistinct(vs) == \A i \in 1..(Len(vs) - 1) : vs[i] /= vs[i + 1]

\* no attempt has left rows behind and failed, and no call is running
Settled == pc = "idle" /\ nlost = 0

\* C1: N consecutive distinct values handed in for one ukey, in separate calls or
\* in one batch, starting with no row for the ukey, are stored with the versions
\* 1, 2, ..., N in the order they were handed in.
C1_VersionsOneToN ==
    Settled =>
        \A k \in DOMAIN submitted :
            ConsecutiveDistinct(submitted[k]) =>
                /\ Versions(RowsOf(measurements, k)) = [i \in 1..Len(submitted[k]) |-> i]
                /\ ValuesOf(RowsOf(measurements, k)) = submitted[k]

\* C1 for the ukeys whose first value is not None: this part holds.
VersionsOneToNAfterConcrete ==
    Settled =>
        \A k \in DOMAIN submitted :
            (ConsecutiveDistinct(submitted[k]) /\ submitted[k][1] /= None) =>
                /\ Versions(RowsOf(measurements, k)) = [i \in 1..Len(submitted[k]) |-> i]
                /\ ValuesOf(RowsOf(measurements, k)) = submitted[k]

\* C2: the same measurement (same ukey, same value) handed in twice, in two calls
\* or twice in one batch, leaves exactly one row of the ukey.
C2_SameTwiceOneVersion ==
    Settled =>
        \A k \in DOMAIN submitted :
            (Len(submitted[k]) >= 2 /\ \A i \in DOMAIN submitted[k] :
                                          submitted[k][i] = submitted[k][1])
                => Len(RowsOf(measurements, k)) = 1

\* C2 for a value that is not None: this part holds.
SameConcreteTwiceOneVersion ==
    Settled =>
        \A k \in DOMAIN submitted :
            (Len(submitted[k]) >= 2 /\ submitted[k][1] /= None
               /\ \A i \in DOMAIN submitted[k] : submitted[k][i] = submitted[k][1])
                => Len(RowsOf(measurements, k)) = 1

\* the decisions of the latest pass on the rows whose value is None
NullDecisions == {i \in DOMAIN last.decisions : last.decisions[i].value = None}

\* C3 (a): None after a latest value None writes no version.
NullAfterNull ==
    \A i \in NullDecisions :
        LET d == last.decisions[i]
        IN  (d.last_version /= NoVersion /\ d.last_value = None) => ~d.written

\* C3 (b): None after a concrete latest value writes the next version.
NullAfterValue ==
    \A i \in NullDecisions :
        LET d == last.decisions[i]
        IN  (d.last_version /= NoVersion /\ d.last_value /= None)
                => d.written /\ d.version = d.last_version + 1

\* C3 (c): None for a ukey without any row is written with version 1.
FirstEverNull ==
    \A i \in NullDecisions :
        LET d == last.decisions[i]
        IN  d.last_version = NoVersion => d.written /\ d.version = 1

\* C3: None after None writes no version, None after a concrete value writes the
\* next version, and a first-ever None is written with version 1.
C3_NullHandling == NullAfterNull /\ NullAfterValue /\ FirstEverNull

\* the value of the row of the highest version of the ukey
CurrentValue(k) ==
    LET rs == RowsOf(measurements, k)
        i == CHOOSE j \in DOMAIN rs : \A l \in DOMAIN rs : rs[l].version <= rs[j].version
    IN  rs[i].value

\* the value most recently accepted for the ukey: that of the row appended last
LastAccepted(k) ==
    LET rs == RowsOf(measurements, k) IN rs[Len(rs)].value

\* C4: with one writer, transient errors and retries included, the versions of a
\* ukey are pairwise distinct and grow in the order the rows were appended, and the
\* row of the highest version holds the value accepted last.
C4_VersionsIncrease ==
    /\ \A i, j \in DOMAIN measurements :
          (i < j /\ measurements[i].ukey = measurements[j].ukey)
              => measurements[i].version < measurements[j].version
    /\ \A k \in Ukeys(measurements) : CurrentValue(k) = LastAccepted(k)

\* a call that failed once, was retried and returned, with two versions of a ukey
C4_Witness ==
    /\ pc = "returned"
    /\ attempts >= 1
    /\ \E k \in Ukeys(measurements) : Len(RowsOf(measurements, k)) >= 2

\* null-aware equality of two values
SameValue(a, b) == (a = None /\ b = None) \/ (a /= None /\ b /= None /\ a = b)

\* the accepted occurrences of the ukey of decision i before i in the batch
AcceptedBefore(D, i) == {j \in 1..(i - 1) : D[j].ukey = D[i].ukey /\ D[j].written}

Latest(S) == CHOOSE j \in S : \A l \in S : l <= j

\* the written decisions, as the rows they stand for
RECURSIVE WrittenRows(_, _, _)
WrittenRows(D, staged, i) ==
    IF i > Len(D) THEN <<>>
    ELSE (IF D[i].written
          THEN <<[ts |-> staged[i].ts, source |-> staged[i].source,
                  metric |-> staged[i].metric, value |-> staged[i].value,
                  ukey |-> staged[i].ukey, version |-> D[i].version]>>
          ELSE <<>>) \o WrittenRows(D, staged, i + 1)

BeforeCall == SubSeq(measurements, 1, Len(measurements) - appended)

ByCall == SubSeq(measurements, Len(measurements) - appended + 1, Len(measurements))

\* the rows of rs that hold the value v for the ukey k
Copies(rs, k, v) == Cardinality({i \in DOMAIN rs : rs[i].ukey = k /\ rs[i].value = v})

\* each attempt of the running call fetched the latest state of the store as it was
\* when the attempt began
FetchedAfresh ==
    (fn = ApiMeasurements /\ last.staged /= <<>>) =>
        LET start == SubSeq(measurements, 1, Len(measurements) - Len(last.written))
        IN  last.fetched
              = _fetch_latest_state(start, {last.staged[i].ukey : i \in DOMAIN last.staged},
                                    chunk_size)

\* the call has stored a value of a ukey no more often than a call without a failed
\* attempt stores it
NoSecondCopy ==
    LET once == Reconcile(BeforeCall, rows).prepared_rows
    IN  \A i \in DOMAIN ByCall :
            Copies(ByCall, ByCall[i].ukey, ByCall[i].value)
                <= Copies(once, ByCall[i].ukey, ByCall[i].value)

\* C19: every attempt of insert_measurements fetches the latest state again and
\* computes the changed rows and their versions from it; when a failed attempt had
\* stored its rows before the error was raised, the next attempt stores no second
\* copy of them.
C19_RetryWritesNoSecondCopy ==
    /\ FetchedAfresh
    /\ (fn = ApiMeasurements /\ pc = "returned") => NoSecondCopy

\* C19 for the batches that name each ukey once: this part holds.
RetryOfDistinctKeysWritesNoSecondCopy ==
    /\ FetchedAfresh
    /\ (fn = ApiMeasurements /\ pc = "returned"
          /\ \A i, j \in DOMAIN last.staged :
                i /= j => last.staged[i].ukey /= last.staged[j].ukey) => NoSecondCopy

\* the rows a step appends to measurements
Appended(before, after) == SubSeq(after, Len(before) + 1, Len(after))

\* C21: after a pass that stopped with any subset of its prepared rows stored, every
\* row a later pass stores for a ukey has a version above every version the store
\* already holds for the ukey, and no (ukey, version) pair is stored twice.
C21_ContinuesAfterInterruption ==
    [][/\ \A i \in DOMAIN measurements' : \A j \in DOMAIN measurements' :
             (i /= j /\ measurements'[i].ukey = measurements'[j].ukey)
                 => measurements'[i].version /= measurements'[j].version
       /\ pc' = "returned" =>
             \A a \in DOMAIN Appended(measurements, measurements') :
                 \A j \in DOMAIN measurements :
                     measurements[j].ukey = Appended(measurements, measurements')[a].ukey
                         => measurements[j].version
                              < Appended(measurements, measurements')[a].version]_vars

\* a pass ran to its end after an interrupted pass had stored the second of its two
\* prepared rows only: the ukey has the versions 2, 3 and 4 and no version 1
C21_Witness ==
    /\ pc = "returned"
    /\ nlost = 1
    /\ Len(measurements) = 3
    /\ measurements[1].version = 2
    /\ measurements[2].version = 3
    /\ measurements[3].version = 4
    /\ measurements[1].ukey = measurements[3].ukey

\* C27: with one writer at a time, two rows of one ukey whose versions are v and
\* v + 1 never hold equal values (two nulls are equal).
C27_ConsecutiveVersionsDiffer ==
    \A i \in DOMAIN measurements : \A j \in DOMAIN measurements :
        (/\ measurements[i].ukey = measurements[j].ukey
         /\ measurements[j].version = measurements[i].version + 1)
            => measurements[i].value /= measurements[j].value

\* a ukey holds rows of consecutive versions that two different passes stored
C27_Witness ==
    /\ pc = "returned"
    /\ nlost = 1
    /\ \E i \in DOMAIN measurements : \E j \in DOMAIN measurements :
          /\ measurements[i].ukey = measurements[j].ukey
          /\ measurements[j].version = measurements[i].version + 1
          /\ i <= Len(measurements) - Len(last.prepared)
          /\ j > Len(measurements) - Len(last.prepared)

\* C8: when insert_measurements of api_data returns, the value returned is the
\* number of rows the call appended to measurements.
C8_ReturnsRowsAppended ==
    (pc = "returned" /\ fn = ApiMeasurements) => result = appended

----------------------------------------------------------------------------
(* Properties of concurrent requests (SpecRace).                           *)

\* the first row a pass prepared for ukey
FirstOf(prepared, ukey) == Head(RowsOf(prepared, ukey))

\* both requests have returned from passes that fetched the latest state before
\* either inserted, and both prepared a row of ukey
Raced(ukey) ==
    /\ \A p \in Callers : race[p].pc = "returned" /\ race[p].raced
    /\ \A p \in Callers : ukey \in Ukeys(race[p].prepared)

\* the store holds two rows of ukey that share a version and differ in value
SharedVersion(ukey) ==
    \E i \in DOMAIN measurements : \E j \in DOMAIN measurements :
        /\ i /= j
        /\ measurements[i].ukey = ukey
        /\ measurements[j].ukey = ukey
        /\ measurements[i].version = measurements[j].version
        /\ measurements[i].value /= measurements[j].value

\* C22: when two insert_measurements calls that carry different values for a ukey
\* both fetch the latest state before either inserts, both give their row the same
\* next version and the store ends with two rows of the ukey that share one version
\* and hold different values.
C22_RaceSharesVersion ==
    \A ukey \in Ukeys(measurements) :
        Raced(ukey) =>
            /\ FirstOf(race[1].prepared, ukey).version
                 = FirstOf(race[2].prepared, ukey).version
            /\ FirstOf(race[1].prepared, ukey).value
                 /= FirstOf(race[2].prepared, ukey).value => SharedVersion(ukey)

\* two requests raced on a ukey with the values 10 and 12 and both returned
C22_Witness ==
    \E ukey \in Ukeys(measurements) :
        /\ Raced(ukey)
        /\ {FirstOf(race[p].prepared, ukey).value : p \in Callers} = {Num(10), Num(12)}
        /\ SharedVersion(ukey)

----------------------------------------------------------------------------
(* Properties of the history the detection pass reads (SpecHistory).       *)

\* the row is the row of the highest version its ukey had in the store read
IsLatest(r) == r.version = MaxVersion(hist.store, r.ukey)

\* C23: the detection pass uses, for each ukey, only the row of the highest version:
\* no superseded row is among the rows the baseline is built from, and none among
\* the rows that are scored.
C23_DetectionReadsMaxVersion ==
    hist.pc = "fetched" =>
        /\ cycle.pc \in {"built", "scored"} =>
              \A i \in DOMAIN cycle.baseline_df : IsLatest(cycle.baseline_df[i])
        /\ cycle.pc = "scored" =>
              \A i \in DOMAIN cycle.eval_df : IsLatest(cycle.eval_df[i])

\* the places <<k, j>> of the chunks that hold the row
PlacesOf(r) ==
    {p \in UNION {{<<k, j>> : j \in DOMAIN hist.chunks[k]} : k \in DOMAIN hist.chunks} :
        hist.chunks[p[1]][p[2]] = r}

\* the stored row is of the metric and its timestamp lies in [start_ts, end_ts]
InRange(r) ==
    /\ r.metric = hist.metric
    /\ Instant(r.ts) >= hist.start_ts
    /\ Instant(r.ts) <= hist.end_ts

\* the windows are contiguous, none is empty, and together they span the range
WindowsSpanRange ==
    hist.pc = "fetched" =>
        /\ hist.windows /= <<>>
        /\ hist.windows[1][1] = hist.start_ts
        /\ hist.windows[Len(hist.windows)][2] = hist.end_ts
        /\ \A k \in DOMAIN hist.windows : hist.windows[k][1] < hist.windows[k][2]
        /\ \A k \in 1..(Len(hist.windows) - 1) :
              hist.windows[k][2] = hist.windows[k + 1][1]

\* every stored row in range is among the rows returned, and nothing else is
NoRowLeftOut ==
    hist.pc = "fetched" =>
        /\ \A i \in DOMAIN hist.store :
              InRange(hist.store[i]) => PlacesOf(MeasurementOut(hist.store[i])) /= {}
        /\ \A j \in DOMAIN cycle.rows :
              \E i \in DOMAIN hist.store :
                  InRange(hist.store[i]) /\ cycle.rows[j] = MeasurementOut(hist.store[i])

\* C28: fetch_anomaly_history returns every stored row of the metric whose timestamp
\* lies in [start_ts, end_ts] exactly once: the windows are contiguous and span the
\* range, no row is returned by two chunk queries and none is left out.
C28_EveryRowExactlyOnce ==
    hist.pc = "fetched" =>
        /\ WindowsSpanRange
        /\ NoRowLeftOut
        /\ \A i \in DOMAIN hist.store :
              InRange(hist.store[i])
                  => Cardinality(PlacesOf(MeasurementOut(hist.store[i]))) = 1

\* a stored row in range whose timestamp is no bound of a window is returned once
InnerRowsOnce ==
    hist.pc = "fetched" =>
        \A i \in DOMAIN hist.store :
            (/\ InRange(hist.store[i])
             /\ \A k \in DOMAIN hist.windows :
                   /\ Instant(hist.store[i].ts) /= hist.windows[k][1]
                   /\ Instant(hist.store[i].ts) /= hist.windows[k][2])
                => Cardinality(PlacesOf(MeasurementOut(hist.store[i]))) = 1

----------------------------------------------------------------------------
(* Properties of the store (SpecStore).                                    *)

\* every row of the table is still there, in its place, with the same contents
Kept(table, after) == Len(after) >= Len(table) /\ SubSeq(after, 1, Len(table)) = table

\* C18: no step of a writer or of a reader changes or removes a row of
\* measurements or anomalies (or of the ingest service's measurements): each table
\* only grows at its end.
C18_AppendOnly ==
    [][/\ Kept(measurements, measurements')
       /\ Kept(anomalies, anomalies')
       /\ Kept(ingest_measurements, ingest_measurements')]_vars

\* count_measurements returned 2 for the two rows that writers had stored
C18_Witness ==
    /\ pc = "returned"
    /\ fn = CountMeasurements
    /\ result = 2
    /\ Len(measurements) = 2

----------------------------------------------------------------------------
(* Properties of the retry loops (SpecWriters).                            *)

\* retry_seconds * 1, retry_seconds * 2, ..., retry_seconds * n
LinearBackoff(n) == [i \in 1..n |-> retry_seconds * i]

\* C6: a call makes between one and max_retries attempts; after its k-th transient
\* failure, k < max_retries, it sleeps retry_seconds * k and tries again; the
\* max_retries-th transient failure leaves the call; an attempt that succeeds is the
\* last one.
C6_RetryPolicy ==
    /\ pc = "attempt" =>
          /\ attempts < max_retries
          /\ tries = attempts
          /\ sleeps = LinearBackoff(attempts)
    /\ (pc \in {"returned", "raised"} /\ rows /= <<>>) =>
          /\ 1 <= tries /\ tries <= max_retries
          /\ tries = IF pc = "raised" /\ error = TransientOf(fn)
                     THEN attempts ELSE attempts + 1
    /\ (pc = "raised" /\ error = TransientOf(fn)) =>
          /\ attempts = max_retries
          /\ sleeps = LinearBackoff(max_retries - 1)
    /\ (pc = "returned" /\ rows /= <<>>) =>
          /\ attempts < max_retries
          /\ sleeps = LinearBackoff(attempts)

\* a worker call with the default settings that gave up after its fifth failure
C6_Witness ==
    /\ pc = "raised"
    /\ fn = WorkerMeasurements
    /\ error = "RequestException"
    /\ max_retries = DefaultMaxRetries
    /\ tries = DefaultMaxRetries
    /\ sleeps = <<1, 2, 3, 4>>

\* C17: in the ingest service's insert_measurements, two stored rows with the same
\* value and the same ukey carry the same version, whatever the table held, whatever
\* else the batch held and whichever attempt wrote them; a call reads nothing from
\* the store, and when it returns it has written a row for every input row, in
\* order, and returns their number.
C17_HashVersions ==
    /\ \A i, j \in DOMAIN ingest_measurements :
          (ingest_measurements[i].ukey = ingest_measurements[j].ukey
             /\ ingest_measurements[i].value = ingest_measurements[j].value)
              => ingest_measurements[i].version = ingest_measurements[j].version
    /\ fn = IngestMeasurements => "read" \notin io
    /\ (fn = IngestMeasurements /\ pc = "returned" /\ rows /= <<>>) =>
          /\ result = Len(rows)
          /\ Len(ingest_measurements) >= Len(rows)
          /\ \A i \in DOMAIN rows :
                LET w == ingest_measurements[Len(ingest_measurements) - Len(rows) + i]
                IN  /\ w.value = clean(rows[i].value)
                    /\ w.ukey = ingest_format_ukey(rows[i].ts, rows[i].perimetre,
                                                   rows[i].nature, rows[i].metric)

\* a call of two rows returned on its second attempt, after the first attempt wrote
\* a row and raised: the table holds a row twice
C17_Witness ==
    /\ fn = IngestMeasurements
    /\ pc = "returned"
    /\ attempts = 1
    /\ Len(rows) = 2
    /\ rows[1].value /= rows[2].value
    /\ \E i, j \in DOMAIN ingest_measurements :
          i < j /\ ingest_measurements[i] = ingest_measurements[j]

\* C20: an error raised in an attempt that is not the transient error of the writer
\* leaves the call at once: the attempt is not counted, nothing is slept, and no
\* attempt follows.
C20_OtherErrorsPropagate ==
    [][/\ (pc = "attempt" /\ error' /= "none" /\ error' /= TransientOf(fn)) =>
             /\ pc' = "raised"
             /\ attempts' = attempts
             /\ sleeps' = sleeps
             /\ tries' = tries + 1
       /\ pc = "raised" => pc' = "idle"]_vars

\* a TypeError or the like left the first attempt of a worker call
C20_Witness ==
    /\ pc = "raised"
    /\ fn = WorkerMeasurements
    /\ error = "Exception"
    /\ tries = 1
    /\ attempts = 0
    /\ sleeps = <<>>

\* such an error left the second attempt of an api_data call, after one transient
\* failure and one sleep
C20_WitnessSecondAttempt ==
    /\ pc = "raised"
    /\ fn = ApiMeasurements
    /\ error = "Exception"
    /\ tries = 2
    /\ attempts = 1
    /\ Len(sleeps) = 1

\* C7: a writer called with no rows returns 0 at once: no client, no store read or
\* write, no HTTP request, and the tables are left as they were.
C7_EmptyIsNoOp ==
    [][(pc = "idle" /\ pc' /= "idle" /\ rows' = <<>>) =>
          /\ pc' = "returned"
          /\ result' = 0
          /\ io' = {}
          /\ tries' = 0
          /\ sleeps' = <<>>
          /\ measurements' = measurements
          /\ anomalies' = anomalies
          /\ ingest_measurements' = ingest_measurements]_vars

\* the ingest writer returned 0 for no rows while the tables hold rows
C7_Witness ==
    /\ pc = "returned"
    /\ rows = <<>>
    /\ result = 0
    /\ io = {}
    /\ fn = IngestMeasurements
    /\ ingest_measurements /= <<>>

----------------------------------------------------------------------------
(* Properties of the worker's ingestion tasks (SpecTasks).                 *)

\* C24: in write_rows -> insert_measurements of ingestion/tasks.py a transient
\* failure of the POST is retried after retry_seconds * attempt, up to max_retries
\* attempts, and only the failure of the last attempt leaves the call, as a
\* requests.RequestException.
C24_TaskWriteRetries ==
    fn = TaskMeasurements =>
        /\ pc = "attempt" =>
              /\ attempts < max_retries
              /\ tries = attempts
              /\ sleeps = LinearBackoff(attempts)
        /\ (pc = "raised" /\ error /= "Exception") =>
              /\ error = "RequestException"
              /\ attempts = max_retries
              /\ sleeps = LinearBackoff(max_retries - 1)
        /\ (pc = "returned" /\ rows /= <<>>) =>
              /\ attempts < max_retries
              /\ sleeps = LinearBackoff(attempts)

\* the call was left by the RequestException of its only attempt
TaskGivesUpAtOnce ==
    (fn = TaskMeasurements /\ pc = "raised" /\ max_retries = 1) =>
        error \in {"RequestException", "Exception"} /\ tries = 1 /\ sleeps = <<>>

----------------------------------------------------------------------------
(* Properties of the paginated fetch (SpecFetch, SpecFetchLive).           *)

\* the k-th request of the run asks for limit page_limit at offset (k - 1) * page_limit
OffsetsInSteps ==
    \A k \in DOMAIN fetch.requests :
        fetch.requests[k] = [limit |-> fetch.page_limit,
                             offset |-> (k - 1) * fetch.page_limit]

\* the loop goes on exactly while the pages are full, and what it returns is the
\* pages joined in the order they came
StopsAtShortPage ==
    /\ fetch.pc = "paging" =>
          /\ Len(fetch.pages) = Len(fetch.requests)
          /\ \A k \in DOMAIN fetch.pages : Len(fetch.pages[k]) = fetch.page_limit
          /\ fetch.all_results = Extend(fetch.pages)
    /\ fetch.pc = "returned" =>
          /\ Len(fetch.pages) = Len(fetch.requests)
          /\ fetch.pages /= <<>>
          /\ \A k \in 1..(Len(fetch.pages) - 1) : Len(fetch.pages[k]) = fetch.page_limit
          /\ Len(fetch.pages[Len(fetch.pages)]) < fetch.page_limit
          /\ fetch.all_results = Extend(fetch.pages)

\* C26: the paginated fetch requests the offsets 0, L, 2L, .. with limit L, goes on
\* exactly while the page returned holds L results, stops at the first page with
\* fewer (an empty one included) and returns the results received in page order;
\* with an upstream that returns a short page in the end, a running fetch ends.
C26_PaginatedFetch ==
    /\ [](OffsetsInSteps /\ StopsAtShortPage)
    /\ (fetch.pc = "paging") ~> (fetch.pc \in {"returned", "raised"})

\* a fetch with limit 2 returned five results: two full pages and a page of one
C26_Witness ==
    /\ fetch.pc = "returned"
    /\ fetch.page_limit = 2
    /\ Len(fetch.pages) = 3
    /\ Len(fetch.all_results) = 5
    /\ fetch.requests[3].offset = 4

\* a fetch stopped at an empty page after a full one
C26_WitnessEmptyPage ==
    /\ fetch.pc = "returned"
    /\ Len(fetch.pages) = 2
    /\ fetch.pages[2] = <<>>
    /\ Len(fetch.all_results) = fetch.page_limit

----------------------------------------------------------------------------
(* Properties of the ingestion passes (SpecPass).                          *)

\* a cycle of the ingest service without API_URL returns (0, 1) and has made no
\* request and no insert
MissingUrlSkipsCycle ==
    (ing.svc = Ingest /\ ing.api_url = "" /\ ing.pc = "sleeping")
        => /\ ing.result = <<0, 1>>
           /\ ing.http = 0
           /\ ing.stores = 0
           /\ fetch = NoFetch

\* without API_URL the flow of the worker ends with the ValueError of
\* fetch_api_results after the task has run TaskRetries + 1 times, none of the runs
\* making a request, and writes no row of the API
MissingUrlAbortsFlow ==
    (ing.svc = Worker /\ ing.api_url = "" /\ ing.pc = "aborted" /\ ing.fetches > 0)
        => /\ ing.error = "ValueError"
           /\ ing.runs = TaskRetries + 1
           /\ ing.http = 0
           /\ ing.api_rows = 0

\* C25: a missing (empty) upstream URL is fatal for the pass and is not retried:
\* fetch_and_store_once returns (0, 1) without an HTTP request or a store call, and
\* fetch_api_results of the worker raises ValueError once, the fetch not being
\* attempted again within the pass.
C25_MissingUrlNotRetried ==
    /\ MissingUrlSkipsCycle
    /\ (ing.svc = Worker /\ ing.api_url = "" /\ ing.pc = "aborted" /\ ing.fetches > 0)
          => /\ ing.error = "ValueError"
             /\ ing.runs = 1
             /\ ing.http = 0

\* what fetch_and_store_once returned is (n, 0) or (0, 1)
CycleReturns ==
    (ing.svc = Ingest /\ ing.pc = "sleeping")
        => /\ ing.result /= <<>>
           /\ ing.result[2] \in {0, 1}
           /\ ing.result[2] = 1 => ing.result[1] = 0

\* the thread of run_loop dies of nothing but the exception of normalize_record
StopsOnNormalizerOnly ==
    (ing.svc = Ingest /\ ing.pc = "stopped") => ing.error = "UnboundLocalError"

\* C29: run_loop of the ingest service never stops because of a failed cycle:
\* fetch_and_store_once never raises, it returns (n, 0) when fetch, normalization and
\* write succeed and (0, 1) when one of them fails, so that after every cycle,
\* whatever records the upstream returned, the loop sleeps and starts the next one.
C29_LoopNeverStops ==
    /\ CycleReturns
    /\ ing.svc = Ingest => ing.pc /= "stopped"

\* C30: history bootstrap writes rows only in a pass that observed the measurements
\* table empty: bootstrap_history of the ingest service returns False without a
\* download or an insert when the table has a row; ingest_cycle of the worker runs
\* bootstrap_history and writes its rows, before the fetch of the API, only when
\* check_db_empty returned True; a failure of the bootstrap step aborts the pass
\* before any row of the API is written.
C30_BootstrapOnlyWhenEmpty ==
    /\ (ing.downloads > 0 \/ ing.boot_rows > 0 \/ ing.boot = "done")
          => ing.empty = <<TRUE>>
    /\ (ing.svc = Ingest /\ ing.empty = <<FALSE>>)
          => ing.boot = "skipped" /\ ing.downloads = 0 /\ ing.boot_rows = 0
    /\ (ing.svc = Worker /\ ing.empty = <<TRUE>> /\ ing.fetches > 0)
          => ing.boot = "done" /\ ing.downloads = 1
    /\ ing.pc \in {"main", "bootstrap", "boot_write"}
          => fetch = NoFetch /\ ing.fetches = 0 /\ ing.api_rows = 0
    /\ ing.boot = "failed"
          => /\ ing.pc \in {"dead", "aborted"}
             /\ ing.fetches = 0
             /\ ing.api_rows = 0

\* a run of the flow found the table empty, wrote the row of the history file and
\* then a row of the API
C30_Witness ==
    /\ ing.svc = Worker
    /\ ing.empty = <<TRUE>>
    /\ ing.boot = "done"
    /\ ing.boot_rows = 1
    /\ ing.api_rows = 1
    /\ Len(measurements) = 2

\* the ingest service started on a table with rows: no download, no insert, and
\* the loop runs
C30_WitnessSkipped ==
    /\ ing.svc = Ingest
    /\ ing.empty = <<FALSE>>
    /\ ing.boot = "skipped"
    /\ ing.pc = "sleeping"
    /\ ing.api_rows > 0

\* the insert of the bootstrap gave up with a row written: main() has ended
C30_WitnessFailed ==
    /\ ing.svc = Ingest
    /\ ing.boot = "failed"
    /\ ing.boot_rows = 1
    /\ ing.pc = "dead"

====
